---- MODULE Spec2Model ----
(***************************************************************************)
(* Verification model of the geo-spoofer-detector server core:             *)
(*   - the VPN/Proxy aggregator       (routes/vpn-detection.js, detectVPN) *)
(*   - the threshold registry         (routes/threshold-config.js)         *)
(*   - the location verifier          (routes/api.js, verifyLocation and   *)
(*                                     the /location/verify route)         *)
(*   - the environment analyzer       (routes/api.js, analyzeEnvironment   *)
(*                                     and the /environment/analyze route) *)
(*   - the session analysis           (services/session-analyzer.js: the   *)
(*                                     fingerprint builder, evaluateLite,  *)
(*                                     and the /session/analyze-lite route)*)
(* A behaviour follows one HTTP request from its arrival to its response   *)
(* (the handlers keep no state from one request to the next); the          *)
(* threshold file may be reloaded at any moment and the provider calls     *)
(* settle in any order.                                                    *)
(***************************************************************************)
EXTENDS Integers, Sequences, FiniteSets, TLC

VARIABLES
    env,                \* process.env: the set of configured credentials
    build,              \* which copy of verifyLocation is deployed
    thresholds,         \* threshold-config.js: the module variable `thresholds`
    pc,                 \* "idle" | "waiting" (at await Promise.all) | "done";
                        \* in /session/analyze-lite: "embedding" | "searching"
                        \* | "evaluating", the await the handler is at
    req,                \* the request being handled
    loc,                \* verifyLocation's locals held across the await
    calls,              \* number of HTTP calls issued to each provider for req
    detectionPromises,  \* detectVPN: providers in the order their promise was pushed
    settled,            \* value each promise resolved to (by position), or Pending
    arrival,            \* positions in the order the provider responses arrived
    answered,           \* what each provider answered (the environment's record)
    vpnResults,         \* value returned by detectVPN
    response,           \* HTTP response sent for req
    sessionData,        \* the session record handed to generateSessionFingerprint
    fingerprints,       \* what the calls of generateSessionFingerprint returned
    similarSessions,    \* the neighbours returned by findSimilarSessions
    evaluations,        \* the calls of evaluateLite: arguments and returned value
    thresholdsFile,     \* config/thresholds.json: the document on disk, or Unavailable
    qdrant,             \* the vector index and the callers initialising or writing it
    sessionManager,     \* the browser's singleton SessionManager and the runs in flight
    detectionState      \* the browser's window.detectionState and its pending callbacks

\* the variables of the aggregator
aggregatorVars == <<calls, detectionPromises, settled, arrival, answered,
                    vpnResults>>
\* the variables of the session analysis
sessionVars == <<sessionData, fingerprints, similarSessions, evaluations>>
\* the threshold file, the vector index and the browser
otherVars == <<thresholdsFile, qdrant, sessionManager, detectionState>>
\* the request handling of the server
handlerVars == <<env, build, pc, req, loc, response>>

vars == <<env, build, thresholds, pc, req, loc, calls, detectionPromises,
          settled, arrival, answered, vpnResults, response, sessionData,
          fingerprints, similarSessions, evaluations, thresholdsFile, qdrant,
          sessionManager, detectionState>>

-----------------------------------------------------------------------------
(* Bounds *)

\* at most this many provider credentials are configured (aggregator runs)
MaxCredentials == 2
\* at most this many provider credentials are configured (verifier runs)
MaxCredentialsLoc == 1
\* at most this many provider credentials are configured (fair aggregator runs)
MaxCredentialsLive == 1

-----------------------------------------------------------------------------
(* JavaScript values *)

Null      == [kind |-> "null", v |-> 0]
Undefined == [kind |-> "undefined", v |-> 0]
\* a number, in hundredths (so that 37.77 is representable)
JSNum(h)  == [kind |-> "num", v |-> h]

\* !x for the values above
Falsy(x) == x.kind \in {"null", "undefined"} \/ x.v = 0
\* Number.isInteger(x)
NumberIsInteger(x) == x.kind = "num" /\ x.v % 100 = 0
\* x > n where n is a whole number (undefined > n is false)
JSGreater(x, n) == x.kind = "num" /\ x.v > 100 * n

\* a number that may be NaN
NaN     == [nan |-> TRUE, v |-> 0]
Num(n)  == [nan |-> FALSE, v |-> n]
\* a >= n (false when a is NaN)
JSGreaterEq(a, n) == ~a.nan /\ a.v >= n

\* Math.round((d / k) * 100): 0/0 is NaN, halves round up
MathRoundPct(d, k) ==
    IF k = 0 THEN NaN ELSE Num((200 * d + k) \div (2 * k))

-----------------------------------------------------------------------------
(* Threshold registry: routes/threshold-config.js *)

\* getDefaultThresholds(): the keys the aggregator, the verifier and the
\* environment route read
getDefaultThresholds ==
    [accuracyLow |-> 1000, likelySpoofed |-> 60, suspicious |-> 80,
     vpnDetected |-> 50, likelyRemote |-> 50, possiblyRemote |-> 75,
     rdpIndicator |-> 24]

\* contents thresholds.json may have
ThresholdDocs ==
    { getDefaultThresholds,
      [accuracyLow |-> 100, likelySpoofed |-> 40, suspicious |-> 90,
       vpnDetected |-> 67, likelyRemote |-> 40, possiblyRemote |-> 60,
       rdpIndicator |-> 32] }

\* getThresholds(): the snapshot is loaded at module load, so it is never null
getThresholds == thresholds

\* reloadThresholds(), from fs.watchFile or PUT /thresholds
ReloadThresholds ==
    /\ \E doc \in ThresholdDocs :
          /\ doc # thresholds
          /\ thresholds' = doc
    /\ UNCHANGED <<otherVars, env, build, pc, req, loc, calls, detectionPromises,
                   settled, arrival, answered, vpnResults, response,
                   sessionVars>>

-----------------------------------------------------------------------------
(* VPN/Proxy aggregator: routes/vpn-detection.js *)

\* the environment variables that hold provider credentials
Credentials ==
    {"IPINFO_TOKEN", "IPAPI_KEY", "VPNAPI_KEY", "IPQUALITYSCORE_KEY",
     "IPHUB_KEY", "ABSTRACTAPI_KEY"}

\* the keys of VPN_DETECTION_SERVICES, in declaration order
RegistryOrder ==
    <<"IPINFO", "IPAPI", "VPNAPI", "IPQUALITYSCORE", "IPHUB", "ABSTRACTAPI",
      "IPAPI_FREE">>

Providers == {RegistryOrder[i] : i \in 1..Len(RegistryOrder)}

\* the credential a registry entry reads; the fallback entry reads none
CredentialOf(p) ==
    CASE p = "IPINFO"         -> "IPINFO_TOKEN"
      [] p = "IPAPI"          -> "IPAPI_KEY"
      [] p = "VPNAPI"         -> "VPNAPI_KEY"
      [] p = "IPQUALITYSCORE" -> "IPQUALITYSCORE_KEY"
      [] p = "IPHUB"          -> "IPHUB_KEY"
      [] p = "ABSTRACTAPI"    -> "ABSTRACTAPI_KEY"
      [] OTHER                -> "none"

\* VPN_DETECTION_SERVICES[p].enabled for process.env = e
VPN_DETECTION_SERVICES(e) ==
    [p \in Providers |->
        [enabled |-> IF p = "IPAPI_FREE" THEN TRUE ELSE CredentialOf(p) \in e]]

\* the client addresses of the runs, and getClientIp's 'unknown'
IPSamples ==
    {"10.0.0.5", "172.16.0.1", "192.168.1.5", "127.0.0.1", "8.8.8.8", "::1"}

\* the characters of an address
Chars(ip) ==
    CASE ip = "10.0.0.5"    -> <<"1","0",".","0",".","0",".","5">>
      [] ip = "172.16.0.1"  -> <<"1","7","2",".","1","6",".","0",".","1">>
      [] ip = "192.168.1.5" -> <<"1","9","2",".","1","6","8",".","1",".","5">>
      [] ip = "127.0.0.1"   -> <<"1","2","7",".","0",".","0",".","1">>
      [] ip = "8.8.8.8"     -> <<"8",".","8",".","8",".","8">>
      [] ip = "::1"         -> <<":",":","1">>
      [] OTHER              -> <<"u","n","k","n","o","w","n">>

\* the address block an address belongs to (IANA special-purpose registry)
IPRange(ip) ==
    CASE ip \in {"10.0.0.5", "172.16.0.1", "192.168.1.5"} -> "private"
      [] ip \in {"127.0.0.1", "::1"}                      -> "loopback"
      [] OTHER                                            -> "public"

\* String.prototype.startsWith
StartsWith(s, prefix) ==
    /\ Len(prefix) <= Len(s)
    /\ \A i \in 1..Len(prefix) : s[i] = prefix[i]

\* the prefixes isPrivateIP tests: 10. 172.16. .. 172.31. 192.168. 127.
PrivatePrefixes ==
    { <<"1","0",".">>, <<"1","9","2",".","1","6","8",".">>, <<"1","2","7",".">> }
    \cup { <<"1","7","2",".","1",d,".">> : d \in {"6","7","8","9"} }
    \cup { <<"1","7","2",".","2",d,".">> :
              d \in {"0","1","2","3","4","5","6","7","8","9"} }
    \cup { <<"1","7","2",".","3",d,".">> : d \in {"0","1"} }

isPrivateIP(ip) == \E prefix \in PrivatePrefixes : StartsWith(Chars(ip), prefix)

\* what a provider's HTTP endpoint can answer within the 5000 ms axios timeout:
\*   ok       2xx with a body of the provider's schema (vpn, tor, fraud: its fields)
\*   garbled  2xx with a body that is not of the schema (a string, an empty object)
\*   timeout  no answer within 5000 ms: axios rejects
\*   http     status >= 400: axios rejects
ResponseSamples ==
    { [kind |-> "ok", vpn |-> FALSE, tor |-> FALSE, fraud |-> 0],
      [kind |-> "ok", vpn |-> TRUE,  tor |-> FALSE, fraud |-> 0],
      [kind |-> "ok", vpn |-> TRUE,  tor |-> TRUE,  fraud |-> 95],
      [kind |-> "ok", vpn |-> FALSE, tor |-> TRUE,  fraud |-> 0],
      [kind |-> "garbled", vpn |-> FALSE, tor |-> FALSE, fraud |-> 0],
      [kind |-> "timeout", vpn |-> FALSE, tor |-> FALSE, fraud |-> 0],
      [kind |-> "http", vpn |-> FALSE, tor |-> FALSE, fraud |-> 0] }

NoAnswer == [kind |-> "none", vpn |-> FALSE, tor |-> FALSE, fraud |-> 0]

\* the service name an adapter puts in its result
ServiceName(p) ==
    CASE p = "IPINFO"         -> "IPInfo"
      [] p = "VPNAPI"         -> "VPNAPI"
      [] p = "IPQUALITYSCORE" -> "IPQualityScore"
      [] p = "IPHUB"          -> "IPHub"
      [] OTHER                -> "IPAPI-Free"

\* checkIPInfo, checkVPNAPI, checkIPQualityScore, checkIPHub, checkIPAPIFree:
\* axios.get rejects on a timeout or a status >= 400 (threw = TRUE); otherwise
\* the fields are read with `data.x?.y || false`, so a body that lacks them
\* yields the same result as a clean answer.  Only IPInfo, VPNAPI and
\* IPQualityScore report isTor, only IPQualityScore reports fraudScore.
Adapter(p, r) ==
    IF r.kind \in {"timeout", "http"}
    THEN [threw |-> TRUE, error |-> r.kind, service |-> "",
          isVPN |-> FALSE, isTor |-> FALSE, fraudScore |-> 0]
    ELSE [threw |-> FALSE, error |-> "", service |-> ServiceName(p),
          isVPN |-> (r.kind = "ok" /\ r.vpn),
          isTor |-> (r.kind = "ok" /\ r.tor
                       /\ p \in {"IPINFO", "VPNAPI", "IPQUALITYSCORE"}),
          fraudScore |-> IF r.kind = "ok" /\ p = "IPQUALITYSCORE"
                         THEN r.fraud ELSE 0]

\* a provider promise without a rejection handler
NoCatchHandler(r) == r

\* .catch(err => ({ error: err.message })) on each provider promise
CatchHandler(r) ==
    IF r.threw
    THEN [threw |-> FALSE, error |-> r.error, service |-> "",
          isVPN |-> FALSE, isTor |-> FALSE, fraudScore |-> 0]
    ELSE r

\* a promise that has not settled
Pending ==
    [threw |-> FALSE, error |-> "pending", service |-> "",
     isVPN |-> FALSE, isTor |-> FALSE, fraudScore |-> 0]

\* the `if (SERVICE.enabled) detectionPromises.push(checkX(ip)...)` statements,
\* in source order, then the unconditional push of checkIPAPIFree
DispatchList(e) ==
    LET S == VPN_DETECTION_SERVICES(e)
        \* the four guarded pushes, in the order they appear in detectVPN
        guarded == <<"IPINFO", "VPNAPI", "IPQUALITYSCORE", "IPHUB">>
    IN  SelectSeq(guarded, LAMBDA p : S[p].enabled) \o <<"IPAPI_FREE">>

\* the values in the order the promises settled
PromiseAllByArrival(values, order) ==
    [i \in 1..Len(order) |-> values[order[i]]]

\* Promise.all(detectionPromises): the values by position
PromiseAll(values, order) == values

\* the aggregation with every dispatched call in the denominator
AggregateOverAllCalls(ip, detectionResults, th) ==
    LET ok     == {i \in 1..Len(detectionResults) : detectionResults[i].error = ""}
        vpn    == {i \in ok : detectionResults[i].isVPN}
        totalChecks   == Cardinality(ok)
        vpnDetections == Cardinality(vpn)
        confidence    == MathRoundPct(vpnDetections, Len(detectionResults))
    IN  [ip |-> ip,
         isVPN |-> JSGreaterEq(confidence, th.vpnDetected),
         confidence |-> confidence,
         detections |-> SelectSeq(detectionResults,
                                  LAMBDA x : x.error = "" /\ x.isVPN),
         details |-> [totalChecks |-> totalChecks,
                      vpnDetections |-> vpnDetections,
                      services |-> detectionResults]]

\* the aggregation loop, the confidence and the verdict of detectVPN
Aggregate(ip, detectionResults, th) ==
    LET ok     == {i \in 1..Len(detectionResults) : detectionResults[i].error = ""}
        vpn    == {i \in ok : detectionResults[i].isVPN}
        totalChecks   == Cardinality(ok)
        vpnDetections == Cardinality(vpn)
        confidence    == MathRoundPct(vpnDetections, totalChecks)
    IN  [ip |-> ip,
         isVPN |-> JSGreaterEq(confidence, th.vpnDetected),
         confidence |-> confidence,
         detections |-> SelectSeq(detectionResults,
                                  LAMBDA x : x.error = "" /\ x.isVPN),
         details |-> [totalChecks |-> totalChecks,
                      vpnDetections |-> vpnDetections,
                      services |-> detectionResults]]

\* the early return of detectVPN for a private address
PrivateResult(ip) ==
    [ip |-> ip, isVPN |-> FALSE, confidence |-> Num(0), detections |-> <<>>,
     details |-> [error |-> "Private IP address"]]

\* no detectVPN result (not called, or not yet returned)
NoResult == [ip |-> "", isVPN |-> FALSE, confidence |-> Num(0),
             detections |-> <<>>, details |-> [none |-> TRUE]]

\* detectVPN rejected
Rejected == [ip |-> "", isVPN |-> FALSE, confidence |-> Num(0),
             detections |-> <<>>, details |-> [rejected |-> TRUE]]

-----------------------------------------------------------------------------
(* Location verifier: verifyLocation and the /location/verify route *)

Flag(t, m) == [type |-> t, message |-> m]

\* the limits the copy of verifyLocation that does not read the registry uses
HardCodedLimits ==
    [accuracyLow |-> 1000, likelySpoofed |-> 60, suspicious |-> 80,
     vpnDetected |-> 50]

\* the deduction for low accuracy: 30 in the registry-driven copy, 15 in the other
AccuracyDeduction(b) == IF b = "registry" THEN 30 ELSE 15

\* one rule of verifyLocation: push the flag and subtract when the rule matches
ApplyRule(acc, matches, flag, deduction) ==
    IF matches
    THEN [score |-> acc.score - deduction, flags |-> Append(acc.flags, flag)]
    ELSE acc

\* verifyLocation up to the call of detectVPN
VerifyLocationBefore(lat, lon, accuracy, age, th, b) ==
    LET s0 == [score |-> 100, flags |-> <<>>]
        s1 == ApplyRule(s0, lat = JSNum(0) /\ lon = JSNum(0),
                        Flag("critical", "Null Island coordinates detected"), 50)
        s2 == ApplyRule(s1, NumberIsInteger(lat) /\ NumberIsInteger(lon),
                        Flag("warning", "Suspiciously round coordinates"), 20)
        s3 == ApplyRule(s2, JSGreater(accuracy, th.accuracyLow),
                        Flag("warning", "Low location accuracy"),
                        AccuracyDeduction(b))
        s4 == ApplyRule(s3, age > 60000,
                        Flag("warning", "Stale location data"), 10)
    IN  [score |-> s4.score, flags |-> s4.flags, thresholds |-> th]

\* verifyLocation from the return of detectVPN (vpn = NoResult when detectVPN
\* was not called or rejected) to its return value
VerifyLocationAfter(pre, vpn) ==
    LET s0 == [score |-> pre.score, flags |-> pre.flags]
        d  == vpn.detections
        s1 == ApplyRule(s0, vpn.isVPN, Flag("warning", "VPN/Proxy detected"), 30)
        s2 == ApplyRule(s1, vpn.isVPN /\ \E i \in 1..Len(d) : d[i].isTor,
                        Flag("fail", "Tor network detected"), 20)
        s3 == ApplyRule(s2, vpn.isVPN /\ \E i \in 1..Len(d) : d[i].fraudScore > 90,
                        Flag("fail", "High-risk IP address"), 20)
        score == s3.score
    IN  [http |-> 200,
         status |-> IF score < pre.thresholds.likelySpoofed THEN "likely_spoofed"
                    ELSE IF score < pre.thresholds.suspicious THEN "suspicious"
                    ELSE "authentic",
         score |-> score,
         flags |-> s3.flags,
         vpnDetection |-> vpn]

\* the route's answer when a coordinate is null
UnableToVerify ==
    [http |-> 200, status |-> "unable_to_verify", score |-> 0,
     flags |-> <<Flag("fail", "Location data not provided")>>,
     vpnDetection |-> NoResult]

\* the route's answer when a coordinate is falsy
MissingLocation ==
    [http |-> 400, status |-> "error", score |-> 0, flags |-> <<>>,
     vpnDetection |-> NoResult]

\* the guard with && in place of ||
CoordinatesBothNull(lat, lon) == lat.kind = "null" /\ lon.kind = "null"

\* the guard `latitude === null || longitude === null` of the route
CoordinatesNull(lat, lon) == lat.kind = "null" \/ lon.kind = "null"

\* the guard `!latitude || !longitude` of the route
CoordinatesMissing(lat, lon) == Falsy(lat) \/ Falsy(lon)

\* res.json of GET /vpn/check
VpnCheckResponse(r) ==
    [http |-> 200, ip |-> r.ip, isVPN |-> r.isVPN, confidence |-> r.confidence,
     details |-> r.details]

NoResponse == [http |-> 0]
NoLocals   == [score |-> 0, flags |-> <<>>, thresholds |-> HardCodedLimits]

\* the inputs of the runs
CoordSamples ==
    { <<Null, Null>>, <<Null, JSNum(200)>>, <<Undefined, Undefined>>,
      <<JSNum(0), JSNum(0)>>, <<JSNum(100), JSNum(200)>>,
      <<JSNum(3777), JSNum(-12242)>> }
AccuracySamples == { JSNum(1500), JSNum(500000) }
AgeSamples      == { 0, 60001 }

-----------------------------------------------------------------------------
(* Actions *)

\* detectVPN from the private-address test to `await Promise.all`: one HTTP
\* call per pushed promise
StartDetectVPN ==
    LET list == DispatchList(env) IN
    /\ detectionPromises' = list
    /\ settled' = [i \in 1..Len(list) |-> Pending]
    /\ arrival' = <<>>
    /\ answered' = [p \in Providers |-> NoAnswer]
    /\ calls' = [p \in Providers |->
                    Cardinality({i \in 1..Len(list) : list[i] = p})]

\* a request that issues no provider call
NoDetectVPN ==
    /\ detectionPromises' = <<>>
    /\ settled' = <<>>
    /\ arrival' = <<>>
    /\ answered' = [p \in Providers |-> NoAnswer]
    /\ calls' = [p \in Providers |-> 0]

\* router.get('/vpn/check/:ip?')
VpnCheckRequest ==
    /\ pc = "idle"
    /\ \E ip \in IPSamples \cup {"unknown"} :
          /\ req' = [route |-> "vpn_check", ip |-> ip, lat |-> Undefined,
                     lon |-> Undefined, accuracy |-> Undefined, age |-> 0]
          /\ loc' = NoLocals
          /\ IF ip = "unknown"
             THEN /\ NoDetectVPN
                  /\ vpnResults' = NoResult
                  /\ response' = [http |-> 400]
                  /\ pc' = "done"
             ELSE IF isPrivateIP(ip)
             THEN /\ NoDetectVPN
                  /\ vpnResults' = PrivateResult(ip)
                  /\ response' = VpnCheckResponse(PrivateResult(ip))
                  /\ pc' = "done"
             ELSE /\ StartDetectVPN
                  /\ vpnResults' = NoResult
                  /\ response' = NoResponse
                  /\ pc' = "waiting"
    /\ UNCHANGED <<otherVars, env, build, thresholds, sessionVars>>

\* router.post('/location/verify') and verifyLocation up to the await
LocationVerifyRequest ==
    /\ pc = "idle"
    /\ \E c \in CoordSamples, accuracy \in AccuracySamples, age \in AgeSamples,
          ip \in IPSamples \cup {"unknown"} :
          LET lat == c[1]
              lon == c[2]
              th  == IF build = "registry" THEN getThresholds ELSE HardCodedLimits
              pre == VerifyLocationBefore(lat, lon, accuracy, age, th, build)
          IN
          /\ req' = [route |-> "location_verify", ip |-> ip, lat |-> lat,
                     lon |-> lon, accuracy |-> accuracy, age |-> age]
          /\ IF CoordinatesNull(lat, lon)
             THEN /\ NoDetectVPN
                  /\ loc' = NoLocals
                  /\ vpnResults' = NoResult
                  /\ response' = UnableToVerify
                  /\ pc' = "done"
             ELSE IF CoordinatesMissing(lat, lon)
             THEN /\ NoDetectVPN
                  /\ loc' = NoLocals
                  /\ vpnResults' = NoResult
                  /\ response' = MissingLocation
                  /\ pc' = "done"
             ELSE IF ip = "unknown"
             THEN /\ NoDetectVPN
                  /\ loc' = pre
                  /\ vpnResults' = NoResult
                  /\ response' = VerifyLocationAfter(pre, NoResult)
                  /\ pc' = "done"
             ELSE IF isPrivateIP(ip)
             THEN /\ NoDetectVPN
                  /\ loc' = pre
                  /\ vpnResults' = PrivateResult(ip)
                  /\ response' = VerifyLocationAfter(pre, PrivateResult(ip))
                  /\ pc' = "done"
             ELSE /\ StartDetectVPN
                  /\ loc' = pre
                  /\ vpnResults' = NoResult
                  /\ response' = NoResponse
                  /\ pc' = "waiting"
    /\ UNCHANGED <<otherVars, env, build, thresholds, sessionVars>>

\* one provider call settles: the adapter returns or throws, the .catch runs
ProviderSettle ==
    /\ pc = "waiting"
    /\ \E i \in 1..Len(detectionPromises), r \in ResponseSamples :
          /\ settled[i] = Pending
          /\ settled' = [settled EXCEPT
                           ![i] = CatchHandler(Adapter(detectionPromises[i], r))]
          /\ arrival' = Append(arrival, i)
          /\ answered' = [answered EXCEPT ![detectionPromises[i]] = r]
    /\ UNCHANGED <<otherVars, env, build, thresholds, pc, req, loc, calls,
                   detectionPromises, vpnResults, response, sessionVars>>

\* Promise.all settles: detectVPN aggregates and returns (or rejects), and
\* its caller runs to its response
DetectVPNReturn ==
    /\ pc = "waiting"
    /\ \A i \in 1..Len(settled) : settled[i] # Pending
    /\ LET rejected == \E i \in 1..Len(settled) : settled[i].threw
           result   == IF rejected THEN Rejected
                       ELSE Aggregate(req.ip, PromiseAll(settled, arrival),
                                      getThresholds)
       IN  /\ vpnResults' = result
           /\ response' =
                 IF req.route = "vpn_check"
                 THEN IF rejected THEN [http |-> 500]
                      ELSE VpnCheckResponse(result)
                 ELSE VerifyLocationAfter(loc, IF rejected THEN NoResult
                                               ELSE result)
    /\ pc' = "done"
    /\ UNCHANGED <<otherVars, env, build, thresholds, req, loc, calls, detectionPromises,
                   settled, arrival, answered, sessionVars>>

-----------------------------------------------------------------------------
(* Specifications *)

\* no session is being analysed
NoSessionData == [none |-> TRUE]

NoRequest == [route |-> "none", ip |-> "", lat |-> Undefined, lon |-> Undefined,
              accuracy |-> Undefined, age |-> 0]

\* the state after module load, with at most n credentials configured
HandlersIdle(n, builds) ==
    /\ env \in {e \in SUBSET Credentials : Cardinality(e) <= n}
    /\ build \in builds
    /\ pc = "idle"
    /\ req = NoRequest
    /\ loc = NoLocals
    /\ calls = [p \in Providers |-> 0]
    /\ detectionPromises = <<>>
    /\ settled = <<>>
    /\ arrival = <<>>
    /\ answered = [p \in Providers |-> NoAnswer]
    /\ vpnResults = NoResult
    /\ response = NoResponse

\* ... with a complete threshold document loaded
ServerInit(n, builds) ==
    /\ HandlersIdle(n, builds)
    /\ thresholds \in ThresholdDocs

\* nothing outside the server's request handling is in progress
Unused == [none |-> TRUE]
OthersIdle ==
    /\ thresholdsFile = Unused
    /\ qdrant = Unused
    /\ sessionManager = Unused
    /\ detectionState = Unused

\* ... and no session under analysis
InitWith(n, builds) ==
    /\ ServerInit(n, builds)
    /\ sessionData = NoSessionData
    /\ fingerprints = <<>>
    /\ similarSessions = <<>>
    /\ evaluations = <<>>
    /\ OthersIdle

\* the aggregator behind GET /vpn/check
InitVPN == InitWith(MaxCredentials, {"registry"})
NextVPN == VpnCheckRequest \/ ProviderSettle \/ DetectVPNReturn \/ ReloadThresholds
SpecVPN == InitVPN /\ [][NextVPN]_vars
\* a settled Promise.all always resumes detectVPN
InitLive == InitWith(MaxCredentialsLive, {"registry"})
LiveSpecVPN == InitLive /\ [][NextVPN]_vars /\ WF_vars(DetectVPNReturn)

\* the verifier behind POST /location/verify
Init == InitWith(MaxCredentialsLoc, {"registry", "hardcoded"})
Next == LocationVerifyRequest \/ ProviderSettle \/ DetectVPNReturn \/ ReloadThresholds
Spec == Init /\ [][Next]_vars

-----------------------------------------------------------------------------
(* Claims about the VPN/Proxy aggregator (SpecVPN) *)

C2_AllErrorsZeroConfidence ==
    ( /\ pc = "done"
      /\ Len(detectionPromises) > 0
      /\ \A i \in 1..Len(detectionPromises) :
            answered[detectionPromises[i]].kind \in {"timeout", "http"} )
    => /\ vpnResults # Rejected
       /\ vpnResults.isVPN = FALSE
       /\ vpnResults.details.totalChecks = 0
       /\ \A i \in 1..Len(vpnResults.details.services) :
             vpnResults.details.services[i].error # ""
       /\ vpnResults.confidence = Num(0)

\* C3: for an address in a private or loopback block no provider call is made,
\* and detectVPN returns isVPN = false, confidence = 0 and the 'Private IP'
\* diagnostic.
C3_ReservedShortCircuit ==
    ( /\ pc # "idle"
      /\ req.route = "vpn_check"
      /\ IPRange(req.ip) \in {"private", "loopback"} )
    => /\ \A p \in Providers : calls[p] = 0
       /\ pc = "done"
       /\ vpnResults = [ip |-> req.ip, isVPN |-> FALSE, confidence |-> Num(0),
                        detections |-> <<>>,
                        details |-> [error |-> "Private IP address"]]

\* C4: detectVPN resolves whatever calls fail; a call that failed (timeout,
\* HTTP >= 400, malformed body) is in details.services with an error marker and
\* is not counted in totalChecks.
C4_FailedCallsMarked ==
    ( pc = "done" /\ Len(detectionPromises) > 0 )
    => /\ vpnResults # Rejected
       /\ LET failed == {i \in 1..Len(detectionPromises) :
                            answered[detectionPromises[i]].kind
                                \in {"timeout", "http", "garbled"}}
          IN  /\ \A i \in failed : vpnResults.details.services[i].error # ""
              /\ vpnResults.details.totalChecks
                    = Len(detectionPromises) - Cardinality(failed)

\* C5: for a public address, each registry entry whose credential is
\* configured is called exactly once, the fallback entry is called exactly
\* once, and no entry without its credential is called.
C5_EnabledProvidersCalledOnce ==
    ( /\ pc # "idle"
      /\ req.route = "vpn_check"
      /\ IPRange(req.ip) = "public"
      /\ req.ip # "unknown" )
    => \A p \in Providers :
          calls[p] = IF p = "IPAPI_FREE" \/ CredentialOf(p) \in env THEN 1 ELSE 0

\* C6: whatever the order in which the responses arrive, details.services
\* lists the results of the called providers in registry order.
C6_ServicesInRegistryOrder ==
    ( pc = "done" /\ Len(detectionPromises) > 0 /\ vpnResults # Rejected )
    => LET order == SelectSeq(RegistryOrder, LAMBDA p : calls[p] > 0)
           srv   == vpnResults.details.services
       IN  /\ Len(srv) = Len(order)
           /\ \A i \in 1..Len(order) :
                 srv[i] = CatchHandler(Adapter(order[i], answered[order[i]]))

\* C6 witness: the second provider answered before the first, with a
\* different result.
C6_Witness ==
    /\ pc = "done"
    /\ Len(arrival) >= 2
    /\ arrival[1] = 2
    /\ settled[1] # settled[2]
    /\ vpnResults # Rejected

-----------------------------------------------------------------------------
(* Claims about the location verifier (Spec) *)

\* C8: the score of every verification result is in [0, 100].
C8_ScoreInRange ==
    ( pc = "done" /\ req.route = "location_verify" /\ response.http = 200 )
    => (response.score >= 0 /\ response.score <= 100)

\* C9: a request with latitude = 0 and longitude = 0 is answered with status
\* likely_spoofed and a critical flag that mentions Null Island.
C9_NullIslandLikelySpoofed ==
    ( /\ pc = "done"
      /\ req.route = "location_verify"
      /\ req.lat = JSNum(0)
      /\ req.lon = JSNum(0) )
    => /\ response.status = "likely_spoofed"
       /\ \E i \in 1..Len(response.flags) :
             response.flags[i] = Flag("critical", "Null Island coordinates detected")

C11_TorFlagged ==
    ( /\ pc = "done"
      /\ req.route = "location_verify"
      /\ Len(detectionPromises) > 0
      /\ vpnResults # Rejected
      /\ \E i \in 1..Len(vpnResults.details.services) :
            vpnResults.details.services[i].isTor )
    => /\ \E i \in 1..Len(response.flags) :
             response.flags[i] = Flag("fail", "Tor network detected")
       /\ response.score
             <= loc.score - 20 - (IF vpnResults.isVPN THEN 30 ELSE 0)

\* C20: the threshold values read while one verification request is handled
\* come from one snapshot: the snapshot detectVPN reads when it resumes is the
\* one verifyLocation captured before the await.
C20_SingleSnapshot ==
    [][ ( /\ pc = "waiting"
          /\ pc' = "done"
          /\ req.route = "location_verify"
          /\ build = "registry"
          /\ vpnResults' # Rejected )
        => getThresholds = loc.thresholds ]_vars

-----------------------------------------------------------------------------
(* JavaScript strings, booleans and objects *)

\* a string, as its characters ('' is falsy: v is the length)
JSStr(c)  == [kind |-> "str", v |-> Len(c), s |-> c]
JSBool(b) == [kind |-> "bool", v |-> IF b THEN 1 ELSE 0]
\* x < n where n is a whole number (null converts to 0, undefined to NaN)
JSLess(x, n) ==
    \/ x.kind = "num" /\ x.v < 100 * n
    \/ x.kind = "null" /\ 0 < n

UpperCaseLetters == <<"A","B","C","D","E","F","G","H","I","J","K","L","M","N","O","P","Q","R","S","T","U","V","W","X","Y","Z">>
LowerCaseLetters == <<"a","b","c","d","e","f","g","h","i","j","k","l","m","n","o","p","q","r","s","t","u","v","w","x","y","z">>
\* String.prototype.toLowerCase
ToLowerCase(c) ==
    [i \in 1..Len(c) |->
        IF \E k \in 1..26 : UpperCaseLetters[k] = c[i]
        THEN LowerCaseLetters[CHOOSE k \in 1..26 : UpperCaseLetters[k] = c[i]]
        ELSE c[i]]
\* String.prototype.includes
Includes(c, sub) ==
    \E i \in 0..(Len(c) - Len(sub)) : \A j \in 1..Len(sub) : c[i + j] = sub[j]

-----------------------------------------------------------------------------
(* Environment analyzer: analyzeEnvironment and the /environment/analyze route *)

\* req.body.screenResolution when it is present
Screen(w, h) == [kind |-> "obj", v |-> 1, width |-> w, height |-> h]

ScreenSamples ==
    {Undefined, Screen(1920, 1080), Screen(1024, 768), Screen(1000, 1000)}
ColorDepthSamples == {Undefined, JSNum(1600), JSNum(2400)}
TouchSamples == {Undefined, JSBool(FALSE), JSBool(TRUE)}
\* a JSON body may carry a renderer that is not a string
RendererSamples ==
    { Undefined, JSNum(100),
      JSStr(<<"V","M","w","a","r","e"," ","S","V","G","A"," ","3","D">>),
      JSStr(<<"N","V","I","D","I","A"," ","G","T","X"," ","1","0","8","0">>),
      JSStr(<<"l","l","v","m","p","i","p","e">>) }
PlatformSamples ==
    { Undefined, JSStr(<<"W","i","n","3","2">>),
      JSStr(<<"L","i","n","u","x"," ","A","n","d","r","o","i","d">>) }
TimezoneSamples == {Undefined, JSStr(<<"U","T","C">>)}
LanguageSamples == {Undefined, JSStr(<<"e","n","-","U","S">>)}

\* the bodies POST /environment/analyze is called with
EnvironmentSignals ==
    [screenResolution : ScreenSamples, colorDepth : ColorDepthSamples,
     touchSupport : TouchSamples, webglRenderer : RendererSamples,
     platform : PlatformSamples, timezone : TimezoneSamples,
     language : LanguageSamples]

\* the handler threw and nothing caught it: the promise of the async handler
\* rejects, no response is written
Unhandled(e) == [http |-> 0, error |-> e]

\* renderer.includes(w) for one of the words, on the lower-cased renderer
RendererIncludes(webglRenderer, words) ==
    \E w \in words : Includes(ToLowerCase(webglRenderer.s), w)

\* commonRatios.some(r => Math.abs(width / height - r) < 0.01)
isCommon(width, height) ==
    \E r \in {<<16, 9>>, <<16, 10>>, <<4, 3>>, <<21, 9>>} :
        LET d == width * r[2] - r[1] * height
        IN  100 * (IF d < 0 THEN -d ELSE d) < height * r[2]

\* analyzeEnvironment(data); a renderer or platform that is truthy and not a
\* string makes toLowerCase / includes throw
analyzeEnvironment(data) ==
    LET s0 == [score |-> 100, flags |-> <<>>]
        s1 == ApplyRule(s0,
                 /\ ~Falsy(data.screenResolution)
                 /\ ~isCommon(data.screenResolution.width,
                              data.screenResolution.height),
                 Flag("warning", "Unusual screen aspect ratio"), 20)
        s2 == ApplyRule(s1, JSLess(data.colorDepth, 24),
                 Flag("warning", "Low color depth (possible RDP)"), 25)
        virtual == /\ ~Falsy(data.webglRenderer)
                   /\ RendererIncludes(data.webglRenderer,
                         {<<"v","m","w","a","r","e">>, <<"v","i","r","t","u","a","l","b","o","x">>,
                          <<"m","i","c","r","o","s","o","f","t"," ","b","a","s","i","c">>,
                          <<"l","l","v","m","p","i","p","e">>})
        s3 == ApplyRule(s2, virtual,
                 Flag("critical", "Virtual display adapter detected"), 40)
        android == /\ data.touchSupport = JSBool(FALSE)
                   /\ ~Falsy(data.platform)
                   /\ Includes(data.platform.s, <<"A","n","d","r","o","i","d">>)
        s4 == ApplyRule(s3, android,
                 Flag("warning", "Android device without touch support"), 30)
        environmentType ==
            IF s4.score < 50 THEN "remote_desktop"
            ELSE IF s4.score < 75 THEN "possibly_remote"
            ELSE IF virtual THEN "virtual_machine"
            ELSE "local_desktop"
    IN  IF \/ ~Falsy(data.webglRenderer) /\ data.webglRenderer.kind # "str"
           \/ /\ data.touchSupport = JSBool(FALSE)
              /\ ~Falsy(data.platform) /\ data.platform.kind # "str"
        THEN [threw |-> TRUE, error |-> "TypeError"]
        ELSE [threw |-> FALSE, environmentType |-> environmentType,
              score |-> s4.score, flags |-> s4.flags]

\* router.post('/environment/analyze') of the copy with analyzeEnvironment:
\* the try/catch answers 500
AnalyzeEnvironmentRoute(body) ==
    LET analysis == analyzeEnvironment(body)
    IN  IF analysis.threw
        THEN [http |-> 500, error |-> "Failed to analyze environment"]
        ELSE [http |-> 200, environmentType |-> analysis.environmentType,
              score |-> analysis.score, flags |-> analysis.flags]

\* the resolutions the registry-driven route accepts ('1920x1080', ...)
commonResolutions ==
    { <<1920, 1080>>, <<1366, 768>>, <<1440, 900>>, <<1536, 864>>,
      <<1280, 720>>, <<2560, 1440>>, <<3840, 2160>>, <<1680, 1050>>,
      <<1600, 900>>, <<1280, 800>> }

\* router.post('/environment/analyze') of the registry-driven copy: no
\* try/catch, screenResolution.width is read without a test
EnvironmentAnalyzeRoute(body, th) ==
    LET s0 == [score |-> 100, flags |-> <<>>]
        s1 == ApplyRule(s0,
                 /\ ~Falsy(body.webglRenderer)
                 /\ RendererIncludes(body.webglRenderer,
                         {<<"v","m","w","a","r","e">>, <<"v","i","r","t","u","a","l","b","o","x">>}),
                 Flag("fail", "Virtual machine detected"), 50)
        s2 == ApplyRule(s1, JSLess(body.colorDepth, th.rdpIndicator),
                 Flag("warning", "Low color depth (possible RDP)"), 25)
        s3 == ApplyRule(s2,
                 <<body.screenResolution.width,
                   body.screenResolution.height>> \notin commonResolutions,
                 Flag("warning", "Unusual screen resolution"), 15)
        environmentType ==
            IF s3.score < th.likelyRemote THEN "remote_desktop"
            ELSE IF s3.score < th.possiblyRemote THEN "possibly_remote"
            ELSE "local_desktop"
    IN  IF \/ ~Falsy(body.webglRenderer) /\ body.webglRenderer.kind # "str"
           \/ body.screenResolution.kind = "undefined"
        THEN Unhandled("TypeError")
        ELSE [http |-> 200, environmentType |-> environmentType,
              score |-> s3.score, flags |-> s3.flags]

\* POST /environment/analyze, from the request to the end of the handler
EnvironmentAnalyzeRequest ==
    /\ pc = "idle"
    /\ \E body \in EnvironmentSignals :
          /\ req' = [route |-> "environment_analyze", body |-> body]
          /\ response' = IF build = "registry"
                         THEN EnvironmentAnalyzeRoute(body, getThresholds)
                         ELSE AnalyzeEnvironmentRoute(body)
    /\ pc' = "done"
    /\ UNCHANGED <<otherVars, env, build, thresholds, loc, aggregatorVars, sessionVars>>

\* the environment analyzer behind POST /environment/analyze
InitEnv == InitWith(0, {"registry", "hardcoded"})
NextEnv == EnvironmentAnalyzeRequest \/ ReloadThresholds
SpecEnv == InitEnv /\ [][NextEnv]_vars

-----------------------------------------------------------------------------
(* Claims about the environment analyzer (SpecEnv) *)

\* C12: a signal whose WebGL renderer contains 'vmware', in any letter case,
\* is answered with environment kind virtual_machine, whatever its other
\* fields and its score.
C12_VmwareIsVirtualMachine ==
    ( /\ pc = "done"
      /\ req.route = "environment_analyze"
      /\ req.body.webglRenderer.kind = "str"
      /\ Includes(ToLowerCase(req.body.webglRenderer.s), <<"v","m","w","a","r","e">>) )
    => /\ response.http = 200
       /\ response.environmentType = "virtual_machine"

\* C13: whichever fields of the signal are missing (each field is absent or
\* of its type), the analysis completes and answers {environmentType, score,
\* flags}.
C13_MissingFieldsAnswered ==
    ( /\ pc = "done"
      /\ req.route = "environment_analyze"
      /\ req.body.webglRenderer.kind \in {"undefined", "str"} )
    => /\ response.http = 200
       /\ response.environmentType \in
             {"local_desktop", "possibly_remote", "remote_desktop",
              "virtual_machine"}
       /\ response.score \in -100..100

-----------------------------------------------------------------------------
(* Fingerprint builder: services/session-analyzer.js *)

\* an array (truthy even when empty)
JSArr(items) == [kind |-> "arr", v |-> 1, items |-> items]
\* a || b
Or(a, b) == IF Falsy(a) THEN b ELSE a
\* o?.f : undefined when o is undefined or null
Get(o, f) == IF o.kind \in {"undefined", "null"} THEN Undefined ELSE o[f]

\* detectionData.location, as the client and the verifier fill it
Location(latitude, longitude, accuracy, responseTime, vpnDetection) ==
    [kind |-> "obj", v |-> 1, coordinates |-> Undefined,
     latitude |-> latitude, longitude |-> longitude, accuracy |-> accuracy,
     responseTime |-> responseTime, vpnDetection |-> vpnDetection]
VpnDetection(isVPN, confidence) ==
    [kind |-> "obj", v |-> 1, isVPN |-> JSBool(isVPN),
     confidence |-> JSNum(100 * confidence)]
\* detectionData.environment
Environment(screenResolution, colorDepth, webglRenderer, touchSupport, platform, cpuCores, deviceMemory) ==
    [kind |-> "obj", v |-> 1, screenResolution |-> screenResolution,
     colorDepth |-> colorDepth, webglRenderer |-> webglRenderer,
     touchSupport |-> touchSupport, platform |-> platform,
     cpuCores |-> cpuCores, deviceMemory |-> deviceMemory]
\* detectionData.network
Network(webrtcIps) == [kind |-> "obj", v |-> 1, webrtcIps |-> webrtcIps]
\* detectionData.detectionResults
DetectionResults(locationScore, environmentScore, locationFlags, environmentFlags) ==
    [kind |-> "obj", v |-> 1, locationScore |-> locationScore,
     environmentScore |-> environmentScore, locationFlags |-> locationFlags,
     environmentFlags |-> environmentFlags]
DetectionData(location, environment, network, timestamp, userAgent, clientIp, detectionResults) ==
    [location |-> location, environment |-> environment, network |-> network,
     timestamp |-> timestamp, userAgent |-> userAgent, clientIp |-> clientIp,
     detectionResults |-> detectionResults]

\* calculateOverallRisk(detectionResults)
calculateOverallRisk(detectionResults) ==
    IF Falsy(detectionResults) THEN "unknown"
    ELSE LET locationScore    == Or(detectionResults.locationScore, JSNum(10000))
             environmentScore == Or(detectionResults.environmentScore, JSNum(10000))
             twiceAvg         == locationScore.v + environmentScore.v
         IN  IF twiceAvg < 2 * 4000 THEN "high"
             ELSE IF twiceAvg < 2 * 7000 THEN "medium"
             ELSE "low"

\* the messages of the fail and warning flags of a list, in order
RECURSIVE Indicators(_)
Indicators(flags) ==
    IF flags = <<>> THEN <<>>
    ELSE (IF Head(flags).type \in {"fail", "warning"}
          THEN <<Head(flags).message>> ELSE <<>>) \o Indicators(Tail(flags))

\* extractSpoofingIndicators(detectionResults)
extractSpoofingIndicators(detectionResults) ==
    LET locationFlags    == Get(detectionResults, "locationFlags")
        environmentFlags == Get(detectionResults, "environmentFlags")
    IN  (IF Falsy(locationFlags) THEN <<>> ELSE Indicators(locationFlags.items))
        \o (IF Falsy(environmentFlags) THEN <<>>
            ELSE Indicators(environmentFlags.items))

\* generateSessionFingerprint(detectionData), with the 16 random bytes and the
\* clock reading it draws; cpuCores and deviceMemory are not declared in the
\* module, so reading them throws a ReferenceError
generateSessionFingerprint(detectionData, randomBytes, now) ==
    LET location         == detectionData.location
        environment      == detectionData.environment
        network          == detectionData.network
        detectionResults == detectionData.detectionResults
        latitude         == Get(location, "latitude")
        longitude        == Get(location, "longitude")
    IN  IF \/ Falsy(Get(environment, "cpuCores"))
           \/ Falsy(Get(environment, "deviceMemory"))
        THEN [threw |-> TRUE, error |-> "ReferenceError"]
        ELSE
        [threw |-> FALSE,
         sessionId |-> randomBytes,
         timestamp |-> Or(detectionData.timestamp, now),
         location |->
           [coordinates |->
               Or(Get(location, "coordinates"),
                  IF ~Falsy(latitude) /\ ~Falsy(longitude)
                  THEN [kind |-> "obj", v |-> 1, latitude |-> latitude,
                        longitude |-> longitude]
                  ELSE Null),
            accuracy |-> Or(Get(location, "accuracy"), Null),
            responseTime |-> Or(Get(location, "responseTime"), Null),
            vpnDetected |->
               Or(Get(Get(location, "vpnDetection"), "isVPN"), JSBool(FALSE)),
            vpnConfidence |->
               Or(Get(Get(location, "vpnDetection"), "confidence"), JSNum(0))],
         environment |->
           [screenResolution |-> Or(Get(environment, "screenResolution"), Null),
            colorDepth |-> Or(Get(environment, "colorDepth"), Null),
            gpu |-> Or(Get(environment, "webglRenderer"), Null),
            touchSupport |-> Or(Get(environment, "touchSupport"), Null),
            platform |-> Or(Get(environment, "platform"), Null),
            cpuCores |-> environment.cpuCores,
            deviceMemory |-> environment.deviceMemory],
         network |->
           [clientIp |-> Or(detectionData.clientIp, Null),
            userAgent |-> Or(detectionData.userAgent, Null),
            webrtcIps |-> Or(Get(network, "webrtcIps"), JSArr(<<>>))],
         summary |->
           [locationScore |-> Or(Get(detectionResults, "locationScore"), JSNum(0)),
            environmentScore |->
               Or(Get(detectionResults, "environmentScore"), JSNum(0)),
            overallRisk |-> calculateOverallRisk(detectionResults),
            spoofingIndicators |-> extractSpoofingIndicators(detectionResults)]]

\* a text projection that also prints the session identifier
fingerprintToTextWithId(fingerprint) ==
    << <<"Session: ", fingerprint.sessionId>>,
       <<"Risk Level: ", fingerprint.summary.overallRisk>> >>

\* fingerprintToText(fingerprint): the lines that are joined with '\n', each
\* as its literal part and the values interpolated into it
fingerprintToText(fingerprint) ==
    (IF ~Falsy(fingerprint.location.coordinates)
     THEN << <<"Location: ", fingerprint.location.coordinates.latitude,
               fingerprint.location.coordinates.longitude>>,
             <<"Accuracy: ", fingerprint.location.accuracy>> >>
     ELSE <<>>)
    \o (IF ~Falsy(fingerprint.location.vpnDetected)
        THEN << <<"VPN detected with ", fingerprint.location.vpnConfidence>> >>
        ELSE <<>>)
    \o << <<"Platform: ", fingerprint.environment.platform>>,
          <<"Screen: ",
            IF Falsy(fingerprint.environment.screenResolution) THEN Undefined
            ELSE JSNum(100 * fingerprint.environment.screenResolution.width),
            IF Falsy(fingerprint.environment.screenResolution) THEN Undefined
            ELSE JSNum(100 * fingerprint.environment.screenResolution.height)>>,
          <<"GPU: ", fingerprint.environment.gpu>>,
          <<"User Agent: ", fingerprint.network.userAgent>> >>
    \o (IF Len(fingerprint.network.webrtcIps.items) > 0
        THEN << <<"WebRTC IPs: ", fingerprint.network.webrtcIps.items>> >>
        ELSE <<>>)
    \o << <<"Risk Level: ", fingerprint.summary.overallRisk>>,
          <<"Location Score: ", fingerprint.summary.locationScore>>,
          <<"Environment Score: ", fingerprint.summary.environmentScore>> >>
    \o (IF Len(fingerprint.summary.spoofingIndicators) > 0
        THEN << <<"Spoofing Indicators: ",
                  fingerprint.summary.spoofingIndicators>> >>
        ELSE <<>>)

\* the bound of the builder runs: generateSessionFingerprint is called at
\* most this many times on one session record
MaxBuilds == 2

\* crypto.randomBytes(16).toString('hex'): two of the 2^128 values
RandomBytesSamples == {JSStr(<<"3","f","9","a">>), JSStr(<<"c","0","7","e">>)}
\* new Date().toISOString() at two moments
ClockSamples == {JSStr(<<"1","0",":","0","0",":","0","1">>), JSStr(<<"1","0",":","0","0",":","0","2">>)}
\* a timestamp sent by the client
ClientTimestamp == JSStr(<<"1","0",":","0","0",":","0","0">>)

VMwareRenderer == JSStr(<<"V","M","w","a","r","e"," ","S","V","G","A"," ","3","D">>)
NvidiaRenderer == JSStr(<<"N","V","I","D","I","A"," ","G","T","X"," ","1","0","8","0">>)
\* the signals evaluateLite looks at
SignalLocations ==
    { Location(JSNum(3777), JSNum(-12242), accuracy, responseTime, vpnDetection) :
        accuracy \in {JSNum(1500), JSNum(150000)},
        responseTime \in {Undefined, JSNum(500), JSNum(12000)},
        vpnDetection \in {Undefined, VpnDetection(TRUE, 100)} }
SignalEnvironments ==
    { Environment(Screen(1920, 1080), colorDepth, webglRenderer, JSBool(TRUE),
                  JSStr(<<"W","i","n","3","2">>), JSNum(800), JSNum(800)) :
        colorDepth \in {Undefined, JSNum(1600), JSNum(2400)},
        webglRenderer \in {Undefined, VMwareRenderer, NvidiaRenderer, JSNum(100)} }
\* a complete record, and records with falsy or missing fields
FullLocation ==
    Location(JSNum(3777), JSNum(-12242), JSNum(1500), JSNum(12000),
             VpnDetection(FALSE, 0))
FalsyLocation == Location(JSNum(0), JSNum(0), JSNum(0), JSNum(0), Undefined)
FullEnvironment ==
    Environment(Screen(1920, 1080), JSNum(2400), NvidiaRenderer, JSBool(TRUE),
                JSStr(<<"W","i","n","3","2">>), JSNum(800), JSNum(800))
MissingEnvironments ==
    { Undefined,
      Environment(Screen(1920, 1080), JSNum(2400), NvidiaRenderer, JSBool(TRUE),
                  JSStr(<<"W","i","n","3","2">>), Undefined, JSNum(800)),
      Environment(Screen(1920, 1080), JSNum(2400), NvidiaRenderer, JSBool(TRUE),
                  JSStr(<<"W","i","n","3","2">>), JSNum(800), Undefined),
      Environment(Undefined, Undefined, Undefined, JSBool(FALSE), Undefined,
                  JSNum(800), JSNum(800)) }
FullNetwork == Network(JSArr(<<"192.168.1.5">>))
UserAgentSample == JSStr(<<"M","o","z","i","l","l","a","/","5",".","0">>)
ClientIpSample == JSStr(<<"8",".","8",".","8",".","8">>)
FlagSamples ==
    JSArr(<< Flag("warning", "Low accuracy"), Flag("pass", "Fresh reading"),
             Flag("fail", "Tor network detected") >>)
ScoreSamples ==
    {Undefined} \cup {JSNum(100 * n) : n \in {0, 30, 39, 40, 69, 70, 100}}
FullResults == DetectionResults(JSNum(8000), JSNum(7500), FlagSamples, Undefined)
DetectionResultsSamples ==
    {Undefined}
    \cup { DetectionResults(l, e, Undefined, FlagSamples) : l, e \in ScoreSamples }

\* the session records of the runs: the risk signals, the scores, and the
\* missing parts are each varied with the rest of the record held complete
SessionSamples ==
    { DetectionData(l, e, FullNetwork, ClientTimestamp, UserAgentSample,
                    ClientIpSample, FullResults) :
        l \in SignalLocations, e \in SignalEnvironments }
    \cup
    { DetectionData(FullLocation, FullEnvironment, FullNetwork, ClientTimestamp,
                    UserAgentSample, ClientIpSample, d) :
        d \in DetectionResultsSamples }
    \cup
    { DetectionData(l, e, n, t, u, u, d) :
        l \in {Undefined, FalsyLocation, FullLocation},
        e \in MissingEnvironments \cup {FullEnvironment},
        n \in {Undefined, FullNetwork},
        t \in {Undefined, ClientTimestamp},
        u \in {Undefined, UserAgentSample},
        d \in {Undefined, FullResults} }

\* one call of generateSessionFingerprint on the session record
GenerateFingerprint ==
    /\ Len(fingerprints) < MaxBuilds
    /\ \E randomBytes \in RandomBytesSamples, now \in ClockSamples :
          fingerprints' =
             Append(fingerprints,
                    generateSessionFingerprint(sessionData, randomBytes, now))
    /\ UNCHANGED <<otherVars, env, build, thresholds, pc, req, loc, aggregatorVars,
                   response, sessionData, similarSessions, evaluations>>

\* the fingerprint builder, called on any session record
InitFP ==
    /\ ServerInit(0, {"registry"})
    /\ sessionData \in SessionSamples
    /\ fingerprints = <<>>
    /\ similarSessions = <<>>
    /\ evaluations = <<>>
    /\ OthersIdle
NextFP == GenerateFingerprint
SpecFP == InitFP /\ [][NextFP]_vars

-----------------------------------------------------------------------------
(* Claims about the fingerprint builder (SpecFP) *)

WithoutIdentity(fingerprint) ==
    [fingerprint EXCEPT !.sessionId = Null, !.timestamp = Null]

C15_BuilderReturns ==
    \A i \in 1..Len(fingerprints) :
        /\ ~fingerprints[i].threw
        /\ Falsy(Get(sessionData.location, "accuracy"))
           => fingerprints[i].location.accuracy = Null
        /\ Falsy(Get(sessionData.environment, "colorDepth"))
           => fingerprints[i].environment.colorDepth = Null
        /\ Falsy(Get(sessionData.environment, "cpuCores"))
           => fingerprints[i].environment.cpuCores = Null

\* the average of two scores is below n
AverageBelow(locationScore, environmentScore, n) ==
    locationScore.v + environmentScore.v < 2 * 100 * n

\* C16: with locationScore and environmentScore in 0..100, overallRisk is
\* high for an average below 40, medium below 70, low otherwise; with the
\* scores undefined it is unknown.
C16_OverallRiskByAverage ==
    \A i \in 1..Len(fingerprints) :
        LET d == sessionData.detectionResults
            l == Get(d, "locationScore")
            e == Get(d, "environmentScore")
            risk == fingerprints[i].summary.overallRisk
        IN  ~fingerprints[i].threw =>
              /\ (l.kind = "num" /\ e.kind = "num") =>
                    risk = IF AverageBelow(l, e, 40) THEN "high"
                           ELSE IF AverageBelow(l, e, 70) THEN "medium"
                           ELSE "low"
              /\ (l.kind = "undefined" /\ e.kind = "undefined") =>
                    risk = "unknown"

-----------------------------------------------------------------------------
(* Lite evaluator: evaluateLite *)

\* a point returned by the vector search: similarity (in hundredths) and the
\* overallRisk of the stored fingerprint
Neighbour(score, overallRisk) == [score |-> score, overallRisk |-> overallRisk]
NeighbourSamples ==
    { <<>>,
      << Neighbour(95, "high") >>,
      << Neighbour(95, "high"), Neighbour(80, "low") >> }

\* the signals in the order evaluateLite tests them
LiteSignals == <<"vpn", "accuracy", "responseTime", "gpu", "colorDepth", "similar">>

\* the condition of each `if` of the tally
SignalMatches(signal, fingerprint, neighbours) ==
    CASE signal = "vpn" -> ~Falsy(fingerprint.location.vpnDetected)
      [] signal = "accuracy" -> JSGreater(fingerprint.location.accuracy, 1000)
      [] signal = "responseTime" ->
            /\ ~Falsy(fingerprint.location.responseTime)
            /\ JSLess(fingerprint.location.responseTime, 10)
      [] signal = "gpu" ->
            /\ ~Falsy(fingerprint.environment.gpu)
            /\ RendererIncludes(fingerprint.environment.gpu,
                  {<<"v","m","w","a","r","e">>, <<"v","i","r","t","u","a","l","b","o","x">>,
                   <<"m","i","c","r","o","s","o","f","t"," ","b","a","s","i","c">>})
      [] signal = "colorDepth" -> JSLess(fingerprint.environment.colorDepth, 24)
      [] signal = "similar" ->
            /\ Len(neighbours) > 0
            /\ 2 * Cardinality({i \in 1..Len(neighbours) :
                                   neighbours[i].overallRisk = "high"})
                  > Len(neighbours)

\* what each matching signal adds to riskScore, and pushes to riskFactors
Bonus(signal) ==
    CASE signal = "vpn" -> 30
      [] signal = "accuracy" -> 15
      [] signal = "responseTime" -> 20
      [] signal = "gpu" -> 25
      [] signal = "colorDepth" -> 15
      [] signal = "similar" -> 20
RiskFactor(signal) ==
    CASE signal = "vpn" -> "VPN/Proxy detected"
      [] signal = "accuracy" -> "Low GPS accuracy"
      [] signal = "responseTime" -> "Suspiciously fast location response"
      [] signal = "gpu" -> "Virtual machine detected"
      [] signal = "colorDepth" -> "Low color depth (possible RDP)"
      [] signal = "similar" -> ""
\* ... and to patterns
Pattern(signal) ==
    CASE signal = "vpn" -> "Network anonymization tool usage"
      [] signal = "accuracy" -> ""
      [] signal = "responseTime" -> "Possible browser extension spoofing"
      [] signal = "gpu" -> "Virtualized environment"
      [] signal = "colorDepth" -> "Remote desktop connection"
      [] signal = "similar" -> "Pattern matches known spoofing attempts"

\* the sum of the similarity scores of a list
RECURSIVE SumScores(_)
SumScores(neighbours) ==
    IF neighbours = <<>> THEN 0
    ELSE Head(neighbours).score + SumScores(Tail(neighbours))

\* a tally that assigns the bonus instead of adding it
TallyAssigned(matched) ==
    IF matched = <<>> THEN 0 ELSE Bonus(matched[Len(matched)])

\* riskScore += bonus, for the signals that matched
RECURSIVE Tally(_)
Tally(matched) ==
    IF matched = <<>> THEN 0 ELSE Bonus(Head(matched)) + Tally(Tail(matched))

\* a tier that needs more than the limit
RiskLevelAbove(riskScore) ==
    IF riskScore > 60 THEN "HIGH"
    ELSE IF riskScore > 30 THEN "MEDIUM"
    ELSE "LOW"

\* 'Determine risk level'
RiskLevel(riskScore) ==
    IF riskScore >= 60 THEN "HIGH"
    ELSE IF riskScore >= 30 THEN "MEDIUM"
    ELSE "LOW"

Min(a, b) == IF a < b THEN a ELSE b

\* evaluateLite(fingerprint, similarSessions); generated tells whether the
\* generative model answered the one-sentence prompt. A gpu that is not a
\* string makes toLowerCase throw, which the outer catch turns into UNKNOWN.
evaluateLite(fingerprint, neighbours, generated) ==
    IF ~Falsy(fingerprint.environment.gpu) /\ fingerprint.environment.gpu.kind # "str"
    THEN [riskAssessment |-> "UNKNOWN", riskScore |-> 0, confidence |-> 0,
          explanation |-> "Error performing lite analysis",
          riskFactors |-> <<>>, patterns |-> <<>>, processingTime |-> "error"]
    ELSE
    LET matched == SelectSeq(LiteSignals,
                      LAMBDA s : SignalMatches(s, fingerprint, neighbours))
        factors == SelectSeq(matched, LAMBDA s : s # "similar")
        riskFactors == [i \in 1..Len(factors) |-> RiskFactor(factors[i])]
        withPattern == SelectSeq(matched, LAMBDA s : s # "accuracy")
        avgSimilarity ==
            IF Len(neighbours) > 0 /\ SumScores(neighbours) > 90 * Len(neighbours)
            THEN <<"Very high similarity to previous sessions">> ELSE <<>>
        riskScore == Tally(matched)
    IN  [riskAssessment |-> RiskLevel(riskScore),
         riskScore |-> riskScore,
         confidence |-> Min(90, 50 + Len(riskFactors) * 10),
         explanation |-> IF generated THEN "generated" ELSE "template",
         riskFactors |-> riskFactors,
         patterns |-> [i \in 1..Len(withPattern) |-> Pattern(withPattern[i])]
                      \o avgSimilarity,
         processingTime |-> "fast"]

\* the fingerprints evaluateLite is called with: built from the session
\* records that vary the risk signals
LiteFingerprints ==
    { generateSessionFingerprint(
          DetectionData(l, e, FullNetwork, ClientTimestamp, UserAgentSample,
                        ClientIpSample, FullResults),
          JSStr(<<"3","f","9","a">>), ClientTimestamp) :
        l \in SignalLocations, e \in SignalEnvironments }

\* the bound of the evaluator runs: evaluateLite is called at most this many
\* times in a row
MaxEvaluations == 2

\* the fields evaluateLite reads
SignalFields(fingerprint, neighbours) ==
    << fingerprint.location.vpnDetected, fingerprint.location.accuracy,
       fingerprint.location.responseTime, fingerprint.environment.gpu,
       fingerprint.environment.colorDepth, JSArr(neighbours) >>

\* two calls whose arguments differ in exactly one of these fields
OneFieldApart(call, fingerprint, neighbours) ==
    LET a == SignalFields(call.fingerprint, call.similarSessions)
        b == SignalFields(fingerprint, neighbours)
    IN  Cardinality({i \in 1..6 : a[i] # b[i]}) = 1

\* one call of evaluateLite; a later call changes one field of the previous
\* call's arguments
EvaluateLite ==
    /\ Len(evaluations) < MaxEvaluations
    /\ \E fingerprint \in LiteFingerprints, neighbours \in NeighbourSamples,
          generated \in BOOLEAN :
          /\ IF evaluations = <<>> THEN TRUE
             ELSE OneFieldApart(evaluations[Len(evaluations)], fingerprint,
                                neighbours)
          /\ evaluations' =
                Append(evaluations,
                       [fingerprint |-> fingerprint,
                        similarSessions |-> neighbours,
                        result |-> evaluateLite(fingerprint, neighbours,
                                                generated)])
    /\ UNCHANGED <<otherVars, env, build, thresholds, pc, req, loc, aggregatorVars,
                   response, sessionData, fingerprints, similarSessions>>

\* the lite evaluator, called on any fingerprint and neighbour list
InitLite ==
    /\ InitWith(0, {"registry"})
    /\ thresholds = getDefaultThresholds
NextLite == EvaluateLite
SpecLite == InitLite /\ [][NextLite]_vars

-----------------------------------------------------------------------------
(* Claims about the lite evaluator (SpecLite) *)

\* the bonus of a risk factor or pattern that a result reports
ReportedBonus(text) ==
    CASE text = "VPN/Proxy detected" -> 30
      [] text = "Low GPS accuracy" -> 15
      [] text = "Suspiciously fast location response" -> 20
      [] text = "Virtual machine detected" -> 25
      [] text = "Low color depth (possible RDP)" -> 15
      [] text = "Pattern matches known spoofing attempts" -> 20
      [] OTHER -> 0
RECURSIVE SumReported(_)
SumReported(texts) ==
    IF texts = <<>> THEN 0
    ELSE ReportedBonus(Head(texts)) + SumReported(Tail(texts))

SignalsOn(call) ==
    LET f == call.fingerprint
        n == call.similarSessions
    IN  (IF f.location.vpnDetected = JSBool(TRUE) THEN {"vpn"} ELSE {})
        \cup (IF f.location.accuracy.kind = "num" /\ f.location.accuracy.v > 100000
              THEN {"accuracy"} ELSE {})
        \cup (IF f.location.responseTime.kind = "num"
                 /\ f.location.responseTime.v < 1000
              THEN {"responseTime"} ELSE {})
        \cup (IF f.environment.gpu = VMwareRenderer THEN {"gpu"} ELSE {})
        \cup (IF f.environment.colorDepth.kind = "num"
                 /\ f.environment.colorDepth.v < 2400
              THEN {"colorDepth"} ELSE {})
        \cup (IF n = << Neighbour(95, "high") >> THEN {"similar"} ELSE {})

\* b has the signals of a and more
SignalsAdded(a, b) == SignalsOn(a) \subseteq SignalsOn(b) /\ SignalsOn(a) # SignalsOn(b)

\* C18: when the arguments of two successive evaluations differ in one field
\* and that turns a risk signal on, riskScore does not decrease; when it turns
\* a risk signal off, riskScore does not increase.
C18_Monotone ==
    \A i \in 1..(Len(evaluations) - 1) :
        LET a == evaluations[i]
            b == evaluations[i + 1]
        IN  (a.result.processingTime = "fast" /\ b.result.processingTime = "fast")
            => /\ SignalsAdded(a, b) => a.result.riskScore <= b.result.riskScore
               /\ SignalsAdded(b, a) => b.result.riskScore <= a.result.riskScore

\* C18 witness: with VPN and a VM GPU already on, the neighbours turn to a
\* high-risk majority and riskScore goes from 55 to 75
C18_Witness ==
    /\ Len(evaluations) = 2
    /\ SignalsOn(evaluations[1]) = {"vpn", "gpu"}
    /\ SignalsOn(evaluations[2]) = {"vpn", "gpu", "similar"}
    /\ evaluations[1].result.riskScore = 55
    /\ evaluations[2].result.riskScore = 75

-----------------------------------------------------------------------------
(* Session analysis route: POST /session/analyze-lite *)

\* a reading with an accuracy of 500 m
CoarseLocation ==
    Location(JSNum(3777), JSNum(-12242), JSNum(50000), JSNum(12000), Undefined)

\* req.body.sessionData of the runs (user agent and client address come from
\* the request itself)
AnalyzeSamples ==
    { DetectionData(l, e, FullNetwork, t, Undefined, Undefined, d) :
        l \in {Undefined, FalsyLocation, FullLocation, CoarseLocation},
        e \in MissingEnvironments \cup {FullEnvironment},
        t \in {Undefined, ClientTimestamp},
        d \in {Undefined, FullResults} }

\* the catch of the route
AnalyzeLiteFailed == [http |-> 500, error |-> "Failed to perform lite analysis"]

\* the handler up to `await generateEmbedding(fingerprintText)`
SessionAnalyzeLiteRequest ==
    /\ pc = "idle"
    /\ \E body \in {Undefined} \cup AnalyzeSamples,
          randomBytes \in RandomBytesSamples, now \in ClockSamples :
          /\ req' = [route |-> "session_analyze_lite", sessionData |-> body]
          /\ IF body = Undefined
             THEN /\ sessionData' = NoSessionData
                  /\ fingerprints' = <<>>
                  /\ response' = [http |-> 400, error |-> "Session data required"]
                  /\ pc' = "done"
             ELSE LET detectionData ==
                          [body EXCEPT !.userAgent = UserAgentSample,
                                       !.clientIp = ClientIpSample]
                      fingerprint ==
                          generateSessionFingerprint(detectionData, randomBytes, now)
                  IN  /\ sessionData' = detectionData
                      /\ fingerprints' = <<fingerprint>>
                      /\ response' = IF fingerprint.threw THEN AnalyzeLiteFailed
                                     ELSE NoResponse
                      /\ pc' = IF fingerprint.threw THEN "done" ELSE "embedding"
    /\ UNCHANGED <<otherVars, env, build, thresholds, loc, aggregatorVars, similarSessions,
                   evaluations>>

\* generateEmbedding settles: the vector, or the error it logs and rethrows
EmbeddingSettle ==
    /\ pc = "embedding"
    /\ \E embedded \in BOOLEAN :
          /\ pc' = IF embedded THEN "searching" ELSE "done"
          /\ response' = IF embedded THEN response ELSE AnalyzeLiteFailed
    /\ UNCHANGED <<otherVars, env, build, thresholds, req, loc, aggregatorVars, sessionVars>>

\* findSimilarSessions settles: the points found, or the error it logs and
\* rethrows; evaluateLite then runs up to its own await
SearchSettle ==
    /\ pc = "searching"
    /\ \/ /\ \E neighbours \in NeighbourSamples : similarSessions' = neighbours
          /\ pc' = "evaluating"
          /\ UNCHANGED response
       \/ /\ pc' = "done"
          /\ response' = AnalyzeLiteFailed
          /\ UNCHANGED similarSessions
    /\ UNCHANGED <<otherVars, env, build, thresholds, req, loc, aggregatorVars, sessionData,
                   fingerprints, evaluations>>

\* evaluateLite returns and the handler answers
EvaluateLiteReturn ==
    /\ pc = "evaluating"
    /\ \E generated \in BOOLEAN :
          LET liteEvaluation ==
                  evaluateLite(fingerprints[1], similarSessions, generated)
          IN  /\ evaluations' =
                    Append(evaluations,
                           [fingerprint |-> fingerprints[1],
                            similarSessions |-> similarSessions,
                            result |-> liteEvaluation])
              /\ response' =
                    [http |-> 200, success |-> TRUE,
                     fingerprint |-> fingerprints[1],
                     evaluation |-> liteEvaluation,
                     similarSessions |->
                        [i \in 1..Len(similarSessions) |->
                            [score |-> similarSessions[i].score,
                             risk |-> similarSessions[i].overallRisk]]]
    /\ pc' = "done"
    /\ UNCHANGED <<otherVars, env, build, thresholds, req, loc, aggregatorVars, sessionData,
                   fingerprints, similarSessions>>

\* the route behind POST /session/analyze-lite
InitAnalyze == InitWith(0, {"registry"})
NextAnalyze ==
    \/ SessionAnalyzeLiteRequest
    \/ EmbeddingSettle
    \/ SearchSettle
    \/ EvaluateLiteReturn
    \/ ReloadThresholds
SpecAnalyze == InitAnalyze /\ [][NextAnalyze]_vars

-----------------------------------------------------------------------------
(* Claims about the session analysis route (SpecAnalyze) *)

\* C19: once the fingerprint of a session is built, the request is answered
\* with the fingerprint and a risk evaluation even when embedding generation
\* or the neighbour search fails.
C19_VectorFailureStillAnswers ==
    ( /\ pc = "done"
      /\ req.route = "session_analyze_lite"
      /\ Len(fingerprints) = 1
      /\ ~fingerprints[1].threw )
    => /\ response.http = 200
       /\ response.fingerprint = fingerprints[1]
       /\ response.evaluation.riskAssessment \in {"LOW", "MEDIUM", "HIGH", "UNKNOWN"}

-----------------------------------------------------------------------------
(* Further claims about the lite evaluator (SpecLite) and the fingerprint
   builder (SpecFP) *)

\* C28: the riskScore evaluateLite returns lies in 0..100.
C28_RiskScoreInRange ==
    \A i \in 1..Len(evaluations) :
        /\ evaluations[i].result.riskScore >= 0
        /\ evaluations[i].result.riskScore <= 100

\* C29: a signal value present in the session record, 0 and false included,
\* is recorded unchanged in the fingerprint, and a fingerprint field is null
\* only when the input field was absent.
C29_PresentValuesKept ==
    \A i \in 1..Len(fingerprints) :
        LET f == fingerprints[i]
            accuracy     == Get(sessionData.location, "accuracy")
            latitude     == Get(sessionData.location, "latitude")
            touchSupport == Get(sessionData.environment, "touchSupport")
        IN  ~f.threw =>
              /\ accuracy.kind = "num" => f.location.accuracy = accuracy
              /\ touchSupport.kind = "bool" => f.environment.touchSupport = touchSupport
              /\ latitude.kind = "num" =>
                    /\ f.location.coordinates # Null
                    /\ f.location.coordinates.latitude = latitude
              /\ f.location.accuracy = Null => accuracy.kind = "undefined"
              /\ f.environment.touchSupport = Null => touchSupport.kind = "undefined"

\* C24: the low-accuracy limit the lite evaluator applies is the one of the
\* registry snapshot at the time of the evaluation: 'Low GPS accuracy' is a
\* risk factor exactly when the accuracy exceeds location.accuracy.low.
C24_LimitsFromRegistry ==
    [][ ( /\ pc = "evaluating"
          /\ pc' = "done"
          /\ response'.evaluation.processingTime = "fast" )
        => LET accuracy == fingerprints[1].location.accuracy
               factors  == response'.evaluation.riskFactors
           IN  (\E i \in 1..Len(factors) : factors[i] = "Low GPS accuracy")
               <=> (accuracy.kind = "num"
                    /\ accuracy.v > 100 * getThresholds.accuracyLow) ]_vars

-----------------------------------------------------------------------------
(* The browser's score calculation: calculateScores (geo-spoofer-detector.js) *)

MaxFlags == 3

\* the flags a check pushes: only `type` is read by the scoring
WarningFlag == [type |-> "warning", message |-> "warning"]
FailFlag    == [type |-> "fail", message |-> "fail"]
FlagLists ==
    UNION {[1..n -> {WarningFlag, FailFlag}] : n \in 0..MaxFlags}

\* thresholds.scoring.deductions of the built-in defaults, and the two network
\* deductions written in calculateScores
Deductions ==
    [locationWarning |-> 20, locationFail |-> 40,
     environmentWarning |-> 25, environmentFail |-> 50,
     networkWarning |-> 20, networkFail |-> 40]

\* let score = 100; flags.forEach(flag => score -= deduction of flag.type)
RECURSIVE Deduct(_, _, _, _)
Deduct(score, flags, warning, fail) ==
    IF flags = <<>> THEN score
    ELSE Deduct(score - (IF Head(flags).type = "warning" THEN warning ELSE 0)
                      - (IF Head(flags).type = "fail" THEN fail ELSE 0),
                Tail(flags), warning, fail)

\* Math.max(0, x)
MathMax0(x) == IF x > 0 THEN x ELSE 0

\* Math.round(sum / 3): the nearest integer, halves towards +Infinity
MathRoundThird(sum) == (2 * sum + 3) \div 6

calculateScores(state) ==
    LET locationScore    == Deduct(100, state.locationFlags,
                                   Deductions.locationWarning, Deductions.locationFail)
        environmentScore == Deduct(100, state.environmentFlags,
                                   Deductions.environmentWarning,
                                   Deductions.environmentFail)
        networkScore     == Deduct(100, state.networkFlags,
                                   Deductions.networkWarning, Deductions.networkFail)
    IN  [location    |-> MathMax0(locationScore),
         environment |-> MathMax0(environmentScore),
         network     |-> MathMax0(networkScore),
         overall     |-> MathMax0(MathRoundThird(locationScore + environmentScore
                                                   + networkScore))]

NoScores == [none |-> TRUE]

\* the detection run computes the scores of the flags collected
CalculateScores ==
    /\ detectionState.scores = NoScores
    /\ detectionState' = [detectionState EXCEPT !.scores = calculateScores(detectionState)]
    /\ UNCHANGED <<handlerVars, thresholds, aggregatorVars, sessionVars,
                   thresholdsFile, qdrant, sessionManager>>

\* a detection state after the checks, with any flags collected
InitScores ==
    /\ ServerInit(0, {"registry"})
    /\ thresholds = getDefaultThresholds
    /\ sessionData = NoSessionData
    /\ fingerprints = <<>>
    /\ similarSessions = <<>>
    /\ evaluations = <<>>
    /\ thresholdsFile = Unused
    /\ qdrant = Unused
    /\ sessionManager = Unused
    /\ detectionState \in [locationFlags : FlagLists, environmentFlags : FlagLists,
                           networkFlags : FlagLists, scores : {NoScores}]
NextScores == CalculateScores
SpecScores == InitScores /\ [][NextScores]_vars

-----------------------------------------------------------------------------
(* The browser's location check: detectLocationWithAPI (api-integration.js) *)

\* what navigator.geolocation reports: coordinates in hundredths of a degree,
\* accuracy in metres, and whether the answer came in under 10 ms
Position(latitude, longitude, accuracy, fast) ==
    [latitude |-> latitude, longitude |-> longitude, accuracy |-> accuracy,
     fast |-> fast]
PositionSamples ==
    {Position(0, 0, 5, TRUE), Position(4885, 235, 5, FALSE),
     Position(1000, 2000, 1500, FALSE)}

ClientFlag(type, message) == [type |-> type, message |-> message]
GeolocationUnavailable == ClientFlag("fail", "Geolocation API not available")
SuspiciouslyFast       == ClientFlag("warning", "Location obtained suspiciously fast")
LowAccuracy            == ClientFlag("warning", "Low location accuracy")
NullIsland             == ClientFlag("fail", "Null Island coordinates detected")
RoundCoordinates       == ClientFlag("warning", "Suspiciously round coordinates")
CouldNotVerify         == ClientFlag("warning", "Could not verify location with server")
LocationError          == ClientFlag("fail", "Location error")
LocationNotAvailable   == ClientFlag("fail", "Location not available")
VpnProxyDetected       == ClientFlag("warning", "VPN/Proxy detected")
ServerFlag             == ClientFlag("warning", "Unable to verify location")

\* what geoSpoofAPI.verifyLocation resolves to: null when the call failed,
\* else the server's answer, with or without a flags array
VerificationResult(hasFlags, flags) ==
    [kind |-> "obj", v |-> 1, hasFlags |-> hasFlags, flags |-> flags]
VerificationResults ==
    {[kind |-> "null", v |-> 0, hasFlags |-> FALSE, flags |-> <<>>],
     VerificationResult(FALSE, <<>>), VerificationResult(TRUE, <<>>),
     VerificationResult(TRUE, <<ServerFlag>>)}

\* the flags the success callback pushes before it calls the server
PositionFlags(position) ==
    (IF position.fast THEN <<SuspiciouslyFast>> ELSE <<>>)
    \o (IF position.accuracy > 1000 THEN <<LowAccuracy>> ELSE <<>>)
    \o (IF position.latitude = 0 /\ position.longitude = 0
        THEN <<NullIsland>> ELSE <<>>)
    \o (IF position.latitude % 100 = 0 /\ position.longitude % 100 = 0
        THEN <<RoundCoordinates>> ELSE <<>>)

\* the three callbacks that call the server, and where each one is:
\* "none" | "verifying" (at verifyLocation) | "vpn" (at fetch /api/vpn/check)
\* | "done"
Chains == {"success", "error", "fallback"}

\* if (!navigator.geolocation): one flag, and the run returns
GeolocationMissing ==
    /\ ~detectionState.geolocation
    /\ detectionState.callback = "pending"
    /\ detectionState' =
           [detectionState EXCEPT
               !.locationFlags = Append(@, GeolocationUnavailable),
               !.callback = "none", !.timer = "none", !.resolved = TRUE]
    /\ UNCHANGED <<handlerVars, thresholds, aggregatorVars, sessionVars,
                   thresholdsFile, qdrant, sessionManager>>

\* getCurrentPosition's success callback, up to its await verifyLocation
GeolocationSuccess ==
    /\ detectionState.geolocation
    /\ detectionState.callback = "pending"
    /\ \E position \in PositionSamples :
          \* an answer in under 10 ms comes before the 5-second timer
          /\ position.fast => detectionState.timer = "armed"
          /\ detectionState' =
              [detectionState EXCEPT
                  !.location = position,
                  !.locationFlags = @ \o PositionFlags(position),
                  !.callback = "success",
                  !.chain = [@ EXCEPT !["success"] = "verifying"]]
    /\ UNCHANGED <<handlerVars, thresholds, aggregatorVars, sessionVars,
                   thresholdsFile, qdrant, sessionManager>>

\* getCurrentPosition's error callback: one flag, the server is called with
\* null coordinates, and the run resolves
GeolocationError ==
    /\ detectionState.geolocation
    /\ detectionState.callback = "pending"
    /\ detectionState' =
           [detectionState EXCEPT
               !.locationFlags = Append(@, LocationError),
               !.callback = "error",
               !.chain = [@ EXCEPT !["error"] = "verifying"],
               !.resolved = TRUE]
    /\ UNCHANGED <<handlerVars, thresholds, aggregatorVars, sessionVars,
                   thresholdsFile, qdrant, sessionManager>>

\* setTimeout(..., 5000): without a stored location the server is called with
\* null coordinates and the run resolves
FallbackTimer ==
    /\ detectionState.timer = "armed"
    /\ detectionState' =
           IF detectionState.location = Null
           THEN [detectionState EXCEPT
                    !.timer = "fired",
                    !.chain = [@ EXCEPT !["fallback"] = "verifying"],
                    !.resolved = TRUE]
           ELSE [detectionState EXCEPT !.timer = "fired"]
    /\ UNCHANGED <<handlerVars, thresholds, aggregatorVars, sessionVars,
                   thresholdsFile, qdrant, sessionManager>>

\* the fallback's .then: the flags are assigned anew
FallbackFlags(flags, result) ==
    <<LocationNotAvailable>> \o (IF result.hasFlags THEN result.flags ELSE <<>>)

\* the continuation of a callback when verifyLocation has resolved
MergeVerification(c, flags, result) ==
    IF result.kind = "null"
    THEN IF c = "success" THEN Append(flags, CouldNotVerify) ELSE flags
    ELSE IF c = "fallback" THEN FallbackFlags(flags, result)
         ELSE IF result.hasFlags /\ Len(result.flags) > 0
              THEN flags \o result.flags
              ELSE flags

VerifyLocationSettle ==
    \E c \in Chains, result \in VerificationResults :
        /\ detectionState.chain[c] = "verifying"
        /\ detectionState' =
               [detectionState EXCEPT
                   !.locationFlags = MergeVerification(c, @, result),
                   !.chain = [@ EXCEPT ![c] =
                                 IF c = "success" /\ result.kind = "null"
                                 THEN "done" ELSE "vpn"],
                   !.resolved = @ \/ (c = "success" /\ result.kind = "null")]
        /\ UNCHANGED <<handlerVars, thresholds, aggregatorVars, sessionVars,
                       thresholdsFile, qdrant, sessionManager>>

\* fetch('/api/vpn/check') has answered (isVPN or not) or failed (caught)
VpnCheckSettle ==
    \E c \in Chains, isVPN \in BOOLEAN :
        /\ detectionState.chain[c] = "vpn"
        /\ detectionState' =
               [detectionState EXCEPT
                   !.locationFlags = IF isVPN THEN Append(@, VpnProxyDetected) ELSE @,
                   !.chain = [@ EXCEPT ![c] = "done"],
                   !.resolved = TRUE]
        /\ UNCHANGED <<handlerVars, thresholds, aggregatorVars, sessionVars,
                       thresholdsFile, qdrant, sessionManager>>

\* one run of detectLocationWithAPI, from its first line
InitLocate ==
    /\ ServerInit(0, {"registry"})
    /\ thresholds = getDefaultThresholds
    /\ sessionData = NoSessionData
    /\ fingerprints = <<>>
    /\ similarSessions = <<>>
    /\ evaluations = <<>>
    /\ thresholdsFile = Unused
    /\ qdrant = Unused
    /\ sessionManager = Unused
    /\ \E geolocation \in BOOLEAN :
          detectionState =
              [geolocation |-> geolocation, location |-> Null,
               locationFlags |-> <<>>, callback |-> "pending",
               timer |-> IF geolocation THEN "armed" ELSE "none",
               chain |-> [c \in Chains |-> "none"], resolved |-> FALSE]
NextLocate ==
    \/ GeolocationMissing
    \/ GeolocationSuccess
    \/ GeolocationError
    \/ FallbackTimer
    \/ VerifyLocationSettle
    \/ VpnCheckSettle
SpecLocate == InitLocate /\ [][NextLocate]_vars

\* the number of times flag f occurs in the list flags
Occurrences(f, flags) == Cardinality({i \in 1..Len(flags) : flags[i] = f})

\* C30: during one run of detectLocationWithAPI, under any ordering of the
\* geolocation callbacks, the 5-second fallback timer and the verify
\* responses, a flag once added to detectionState.locationFlags is never
\* removed or replaced by a later step of the run.
C30_FlagsOnlyAdded ==
    [][ \A i \in 1..Len(detectionState.locationFlags) :
           LET f == detectionState.locationFlags[i]
           IN  Occurrences(f, detectionState'.locationFlags)
                   >= Occurrences(f, detectionState.locationFlags) ]_vars


-----------------------------------------------------------------------------
(* The threshold registry with its file: threshold-config.js, GET and PUT
   /thresholds (api.js) *)

\* the groups of a threshold document and the keys read from each
SectionKeys ==
    [location    |-> {"accuracyLow", "likelySpoofed", "suspicious"},
     environment |-> {"likelyRemote", "possiblyRemote", "rdpIndicator"},
     vpn         |-> {"vpnDetected"}]
SectionNames == DOMAIN SectionKeys

\* the document a flat snapshot stands for
Nested(flat) == [s \in SectionNames |-> [k \in SectionKeys[s] |-> flat[k]]]
DefaultDocument == Nested(getDefaultThresholds)
CustomDocument ==
    Nested([accuracyLow |-> 100, likelySpoofed |-> 40, suspicious |-> 90,
            vpnDetected |-> 67, likelyRemote |-> 40, possiblyRemote |-> 60,
            rdpIndicator |-> 32])

\* documents an operator may write: complete, without the vpn group, with a
\* vpn group that lacks confidence.detected, without the environment group
DocumentSamples ==
    {CustomDocument,
     [s \in {"location", "environment"} |-> CustomDocument[s]],
     [CustomDocument EXCEPT !.vpn = [providers |-> 3]],
     [s \in {"location", "vpn"} |-> CustomDocument[s]]}

\* thresholds.json is missing or is not JSON
Unavailable == [unavailable |-> TRUE]

\* loadThresholds(): what it assigns to `thresholds` (nothing when the read
\* fails) and what it returns
loadThresholds(memory, file) ==
    IF file = Unavailable
    THEN [thresholds |-> memory, returned |-> DefaultDocument]
    ELSE [thresholds |-> file, returned |-> file]

\* reloadThresholds(): thresholds = loadThresholds()
reloadThresholds(memory, file) == loadThresholds(memory, file).returned

\* getThresholds(): if (!thresholds) thresholds = loadThresholds()
getThresholdsLoading(memory, file) ==
    IF memory = Null THEN loadThresholds(memory, file).returned ELSE memory

\* the operator edits, replaces or removes thresholds.json
ThresholdsFileChanged ==
    /\ \E file \in DocumentSamples \cup {Unavailable} :
          /\ file # thresholdsFile
          /\ thresholdsFile' = file
    /\ UNCHANGED <<handlerVars, thresholds, aggregatorVars, sessionVars,
                   qdrant, sessionManager, detectionState>>

\* fs.watchFile's listener: reloadThresholds()
WatcherReload ==
    /\ thresholds' = reloadThresholds(thresholds, thresholdsFile)
    /\ UNCHANGED <<handlerVars, aggregatorVars, sessionVars, otherVars>>

\* GET /thresholds: res.json(getThresholds())
GetThresholdsRequest ==
    /\ thresholds' = getThresholdsLoading(thresholds, thresholdsFile)
    /\ response' = [http |-> 200, route |-> "GET /thresholds",
                    thresholds |-> thresholds']
    /\ UNCHANGED <<env, build, pc, req, loc, aggregatorVars, sessionVars,
                   otherVars>>

\* PUT /thresholds: validate the groups, write the file, reload, answer
PutThresholdsRequest ==
    \E newThresholds \in DocumentSamples, written \in BOOLEAN :
        IF ~(SectionNames \subseteq DOMAIN newThresholds)
        THEN /\ response' = [http |-> 400, route |-> "PUT /thresholds",
                             thresholds |-> Unavailable]
             /\ UNCHANGED <<env, build, thresholds, pc, req, loc,
                            aggregatorVars, sessionVars, otherVars>>
        ELSE IF ~written
        THEN \* fs.writeFileSync threw
             /\ response' = [http |-> 500, route |-> "PUT /thresholds",
                             thresholds |-> Unavailable]
             /\ UNCHANGED <<env, build, thresholds, pc, req, loc,
                            aggregatorVars, sessionVars, otherVars>>
        ELSE /\ thresholdsFile' = newThresholds
             /\ thresholds' = reloadThresholds(thresholds, newThresholds)
             /\ response' = [http |-> 200, route |-> "PUT /thresholds",
                             thresholds |-> thresholds']
             /\ UNCHANGED <<env, build, pc, req, loc, aggregatorVars,
                            sessionVars, qdrant, sessionManager, detectionState>>

\* the state after module load: loadThresholds() has run once
InitRegistry ==
    /\ HandlersIdle(0, {"registry"})
    /\ sessionData = NoSessionData
    /\ fingerprints = <<>>
    /\ similarSessions = <<>>
    /\ evaluations = <<>>
    /\ thresholdsFile \in DocumentSamples \cup {Unavailable}
    /\ thresholds = loadThresholds(Null, thresholdsFile).thresholds
    /\ qdrant = Unused
    /\ sessionManager = Unused
    /\ detectionState = Unused
NextRegistry ==
    \/ ThresholdsFileChanged
    \/ WatcherReload
    \/ GetThresholdsRequest
    \/ PutThresholdsRequest
SpecRegistry == InitRegistry /\ [][NextRegistry]_vars

\* the document get() answers from: the one in memory, else the file
LoadedDocument == IF thresholds = Null THEN thresholdsFile ELSE thresholds

\* C21: when the loaded threshold document lacks a required key or group,
\* get() returns the built-in default for that key and keeps the values of
\* the keys that are present; when the document is unavailable, the whole
\* built-in default snapshot is returned.
C21_MissingKeysDefaulted ==
    [][ (response' # response /\ response'.http = 200
         /\ response'.route = "GET /thresholds")
        => LET returned == response'.thresholds
           IN  \A s \in SectionNames : \A k \in SectionKeys[s] :
                  /\ s \in DOMAIN returned
                  /\ k \in DOMAIN returned[s]
                  /\ returned[s][k] =
                        IF /\ LoadedDocument # Unavailable
                           /\ s \in DOMAIN LoadedDocument
                           /\ k \in DOMAIN LoadedDocument[s]
                        THEN LoadedDocument[s][k]
                        ELSE DefaultDocument[s][k] ]_vars


-----------------------------------------------------------------------------
(* The vector index: initializeQdrantCollection and storeSessionFingerprint
   (session-fingerprint.js), POST /session/store and /session/store-multi *)

MaxCallers == 3

Callers == 1..MaxCallers

\* a caller enters initializeQdrantCollection: getCollections() is sent
CallInitialize ==
    \E c \in Callers :
        /\ qdrant.caller[c] = "idle"
        /\ qdrant' = [qdrant EXCEPT !.caller[c] = "listing"]
        /\ UNCHANGED <<handlerVars, thresholds, aggregatorVars, sessionVars,
                       thresholdsFile, sessionManager, detectionState>>

\* await getCollections() resumes the caller: it throws (caught, logged), or
\* it lists the collections of that moment; without the collection in the
\* list the caller sends createCollection
GetCollectionsSettle ==
    \E c \in Callers, failed \in BOOLEAN :
        /\ qdrant.caller[c] = "listing"
        /\ qdrant' =
               IF failed \/ qdrant.exists
               THEN [qdrant EXCEPT !.caller[c] = "done"]
               ELSE [qdrant EXCEPT !.caller[c] = "creating",
                                   !.createAttempts = @ + 1]
        /\ UNCHANGED <<handlerVars, thresholds, aggregatorVars, sessionVars,
                       thresholdsFile, sessionManager, detectionState>>

\* the index handles createCollection: it creates the collection, or it
\* refuses (the collection exists by now, or another error); the caller
\* catches and logs
CreateCollectionSettle ==
    \E c \in Callers, failed \in BOOLEAN :
        /\ qdrant.caller[c] = "creating"
        /\ qdrant' = [qdrant EXCEPT !.caller[c] = "done",
                                    !.exists = @ \/ ~failed]
        /\ UNCHANGED <<handlerVars, thresholds, aggregatorVars, sessionVars,
                       thresholdsFile, sessionManager, detectionState>>

\* the index before the first call, with or without the collection
InitCollection ==
    /\ ServerInit(0, {"registry"})
    /\ sessionData = NoSessionData
    /\ fingerprints = <<>>
    /\ similarSessions = <<>>
    /\ evaluations = <<>>
    /\ thresholds = getDefaultThresholds
    /\ thresholdsFile = Unused
    /\ sessionManager = Unused
    /\ detectionState = Unused
    /\ \E existed \in BOOLEAN :
          qdrant = [existed |-> existed, exists |-> existed, createAttempts |-> 0,
                    caller |-> [c \in Callers |-> "idle"]]
NextCollection == CallInitialize \/ GetCollectionsSettle \/ CreateCollectionSettle
SpecCollection == InitCollection /\ [][NextCollection]_vars

\* C22: if initializeQdrantCollection is called by several callers
\* concurrently while the collection does not exist, at most one
\* createCollection attempt is issued in total; when the collection already
\* exists, no creation attempt is issued.
C22_SingleCreateAttempt ==
    qdrant.createAttempts <= (IF qdrant.existed THEN 0 ELSE 1)


\* ---- the points of the index ----

MaxGenerated == 2

\* session ids a client sends with /session/store-multi, and the ids the
\* server draws (crypto.randomBytes, generateId), taken as never repeating
ClientIds == {[by |-> "client", n |-> 1], [by |-> "client", n |-> 2]}
GeneratedIds == {[by |-> "server", n |-> n] : n \in 1..MaxGenerated}
PointIds == ClientIds \cup GeneratedIds

\* the embeddings generateEmbedding may answer
Vectors == {1, 2}
\* the numbers of detections a client sends
DetectionCounts == 0..2

Absent == [absent |-> TRUE]

\* storeSessionFingerprint: upsert of {id: fingerprint.sessionId, vector, payload}
storeSessionFingerprint(points, fingerprint, embedding) ==
    [points EXCEPT ![fingerprint.sessionId] =
        [vector |-> embedding, payload |-> fingerprint]]

\* POST /session/store: fingerprint with a drawn id, embedding, upsert, 200;
\* any throw on the way (builder, embedding, index) is answered with 500
SessionStoreRequest ==
    \E embedding \in Vectors, failed \in BOOLEAN :
        IF failed
        THEN /\ response' = [http |-> 500, route |-> "/session/store"]
             /\ UNCHANGED <<env, build, thresholds, pc, req, loc, aggregatorVars,
                            sessionVars, otherVars>>
        ELSE /\ qdrant.generated < MaxGenerated
             /\ LET fingerprint ==
                        [sessionId |-> [by |-> "server", n |-> qdrant.generated + 1],
                         detectionCount |-> 1]
                IN  /\ qdrant' =
                           [points |-> storeSessionFingerprint(qdrant.points,
                                                               fingerprint, embedding),
                            generated |-> qdrant.generated + 1]
                    /\ response' = [http |-> 200, route |-> "/session/store",
                                    sessionId |-> fingerprint.sessionId]
             /\ UNCHANGED <<env, build, thresholds, pc, req, loc, aggregatorVars,
                            sessionVars, thresholdsFile, sessionManager,
                            detectionState>>

\* POST /session/store-multi: 400 without detections; the point id is the
\* client's sessionId, or a drawn one when the client sent none
SessionStoreMultiRequest ==
    \E sessionId \in ClientIds \cup {Undefined}, detections \in DetectionCounts,
       embedding \in Vectors, failed \in BOOLEAN :
        IF detections = 0
        THEN /\ response' = [http |-> 400, route |-> "/session/store-multi"]
             /\ UNCHANGED <<env, build, thresholds, pc, req, loc, aggregatorVars,
                            sessionVars, otherVars>>
        ELSE IF failed
        THEN /\ response' = [http |-> 500, route |-> "/session/store-multi"]
             /\ UNCHANGED <<env, build, thresholds, pc, req, loc, aggregatorVars,
                            sessionVars, otherVars>>
        ELSE /\ sessionId = Undefined => qdrant.generated < MaxGenerated
             /\ LET finalSessionId ==
                        IF sessionId = Undefined
                        THEN [by |-> "server", n |-> qdrant.generated + 1]
                        ELSE sessionId
                    sessionFingerprint ==
                        [sessionId |-> finalSessionId, detectionCount |-> detections]
                IN  /\ qdrant' =
                           [points |-> storeSessionFingerprint(qdrant.points,
                                           sessionFingerprint, embedding),
                            generated |-> IF sessionId = Undefined
                                          THEN qdrant.generated + 1
                                          ELSE qdrant.generated]
                    /\ response' = [http |-> 200, route |-> "/session/store-multi",
                                    sessionId |-> finalSessionId]
             /\ UNCHANGED <<env, build, thresholds, pc, req, loc, aggregatorVars,
                            sessionVars, thresholdsFile, sessionManager,
                            detectionState>>

\* an index with no points yet
InitStore ==
    /\ ServerInit(0, {"registry"})
    /\ thresholds = getDefaultThresholds
    /\ sessionData = NoSessionData
    /\ fingerprints = <<>>
    /\ similarSessions = <<>>
    /\ evaluations = <<>>
    /\ thresholdsFile = Unused
    /\ sessionManager = Unused
    /\ detectionState = Unused
    /\ qdrant = [points |-> [id \in PointIds |-> Absent], generated |-> 0]
NextStore == SessionStoreRequest \/ SessionStoreMultiRequest
SpecStore == InitStore /\ [][NextStore]_vars

\* C23: once a point has been written to the vector index, no later store
\* request changes its vector or payload: every previously written point is
\* still present with its original content.
C23_WrittenPointsKept ==
    [][ \A id \in PointIds :
           qdrant.points[id] # Absent => qdrant'.points[id] = qdrant.points[id] ]_vars


-----------------------------------------------------------------------------
(* The browser's session runner: SessionManager, runDetectionInSession,
   startSession, endSession (geo-spoofer-detector.js) *)

MaxSessions == 2
MaxRuns == 3

\* the overall scores runDetection may resolve with
OverallSamples == {40, 95}

\* Math.round(sum / n), n > 0
MathRoundDiv(sum, n) == (2 * sum + n) \div (2 * n)

RECURSIVE SumOverall(_)
SumOverall(detections) ==
    IF detections = <<>> THEN 0
    ELSE Head(detections).scores.overall + SumOverall(Tail(detections))

\* generateSessionSummary(): null without detections
generateSessionSummary(session) ==
    IF Len(session.detections) = 0 THEN Null
    ELSE [kind |-> "obj", v |-> 1,
          detectionCount |-> Len(session.detections),
          averageOverall |-> MathRoundDiv(SumOverall(session.detections),
                                          Len(session.detections))]

\* an addDetection whose index counts from one
addDetectionFromOne(session, detectionData) ==
    [session EXCEPT !.detections =
        Append(@, [run |-> detectionData.run, scores |-> detectionData.scores,
                   detectionIndex |-> Len(session.detections) + 1])]

\* addDetection(): {...detectionData, detectionIndex: detections.length} is pushed
addDetection(session, detectionData) ==
    [session EXCEPT !.detections =
        Append(@, [run |-> detectionData.run, scores |-> detectionData.scores,
                   detectionIndex |-> Len(session.detections)])]

Active == sessionManager.isActive /\ sessionManager.currentSession # Null

\* a current session with a newly drawn id
NewSession(n) ==
    [kind |-> "obj", v |-> 1, sessionId |-> n, detections |-> <<>>,
     isActive |-> TRUE, summary |-> Null]

\* startSession(): the current session is replaced by a new one
StartSession ==
    /\ sessionManager.generated < MaxSessions
    /\ sessionManager' =
           [sessionManager EXCEPT
               !.currentSession = NewSession(sessionManager.generated + 1),
               !.isActive = TRUE,
               !.generated = @ + 1,
               !.threw = "none"]
    /\ UNCHANGED <<handlerVars, thresholds, aggregatorVars, sessionVars,
                   thresholdsFile, qdrant, detectionState>>

\* endSession(): throws without an active session; else the session gets its
\* summary, is returned, and the manager is reset
EndSession ==
    /\ sessionManager' =
           IF ~Active
           THEN [sessionManager EXCEPT !.threw = "No active session to end."]
           ELSE [sessionManager EXCEPT
                    !.completed =
                        Append(@, [sessionManager.currentSession EXCEPT
                                      !.isActive = FALSE,
                                      !.summary = generateSessionSummary(
                                                      sessionManager.currentSession)]),
                    !.currentSession = Null,
                    !.isActive = FALSE,
                    !.threw = "none"]
    /\ UNCHANGED <<handlerVars, thresholds, aggregatorVars, sessionVars,
                   thresholdsFile, qdrant, detectionState>>

\* runDetectionInSession(options), up to its await runDetection(): a session
\* is started when autoSession asks for one, and the call throws when none
\* is active
RunDetectionInSession(autoSession) ==
    /\ Len(sessionManager.runs) < MaxRuns
    /\ autoSession /\ ~sessionManager.isActive
           => sessionManager.generated < MaxSessions
    /\ LET started == autoSession /\ ~sessionManager.isActive
           current == IF started THEN NewSession(sessionManager.generated + 1)
                      ELSE sessionManager.currentSession
           isActive == started \/ sessionManager.isActive
       IN  sessionManager' =
               [sessionManager EXCEPT
                   !.currentSession = current,
                   !.isActive = isActive,
                   !.generated = IF started THEN @ + 1 ELSE @,
                   !.runs = Append(@, IF isActive
                                      THEN [state |-> "running",
                                            began |-> current.sessionId]
                                      ELSE [state |-> "refused", began |-> 0]),
                   !.threw = IF isActive THEN "none"
                             ELSE "No active session. Start a session first or use autoSession: true"]
    /\ UNCHANGED <<handlerVars, thresholds, aggregatorVars, sessionVars,
                   thresholdsFile, qdrant, detectionState>>

\* runDetection() has resolved: sessionManager.addDetection(detectionData),
\* which throws without an active session
RunDetectionResolved ==
    \E r \in 1..Len(sessionManager.runs), overall \in OverallSamples :
        /\ sessionManager.runs[r].state = "running"
        /\ LET detectionData == [run |-> r, scores |-> [overall |-> overall]]
           IN  sessionManager' =
                   IF ~Active
                   THEN [sessionManager EXCEPT
                            !.runs[r].state = "dropped",
                            !.threw = "No active session. Call startSession() first."]
                   ELSE [sessionManager EXCEPT
                            !.currentSession = addDetection(@, detectionData),
                            !.runs[r].state = "added",
                            !.threw = "none"]
        /\ UNCHANGED <<handlerVars, thresholds, aggregatorVars, sessionVars,
                       thresholdsFile, qdrant, detectionState>>

\* the page after load: new SessionManager()
InitRunner ==
    /\ ServerInit(0, {"registry"})
    /\ thresholds = getDefaultThresholds
    /\ sessionData = NoSessionData
    /\ fingerprints = <<>>
    /\ similarSessions = <<>>
    /\ evaluations = <<>>
    /\ thresholdsFile = Unused
    /\ qdrant = Unused
    /\ detectionState = Unused
    /\ sessionManager = [currentSession |-> Null, isActive |-> FALSE, generated |-> 0,
                         runs |-> <<>>, completed |-> <<>>, threw |-> "none"]

\* any callers, in any interleaving
NextRunner ==
    \/ StartSession
    \/ EndSession
    \/ \E autoSession \in BOOLEAN : RunDetectionInSession(autoSession)
    \/ RunDetectionResolved
SpecRunner == InitRunner /\ [][NextRunner]_vars

\* no run is at its await
Quiet == \A r \in 1..Len(sessionManager.runs) : sessionManager.runs[r].state # "running"

\* one caller that awaits every call and passes autoSession: false
NextSequential ==
    \/ Quiet /\ StartSession
    \/ Quiet /\ EndSession
    \/ Quiet /\ RunDetectionInSession(FALSE)
    \/ RunDetectionResolved
SpecSequential == InitRunner /\ [][NextSequential]_vars


-----------------------------------------------------------------------------
(* Claims about the session runner (SpecSequential, SpecRunner) *)

\* the calls of runDetectionInSession that began under session id and returned
CompletedCalls(id) ==
    {r \in 1..Len(sessionManager.runs) :
        /\ sessionManager.runs[r].began = id
        /\ sessionManager.runs[r].state = "added"}

SessionsMade ==
    {sessionManager.completed[n] : n \in 1..Len(sessionManager.completed)}
    \cup (IF sessionManager.currentSession = Null THEN {}
          ELSE {sessionManager.currentSession})

\* C26: under any interleaving of runDetectionInSession, startSession and
\* endSession, a detection whose run began while session A was active is
\* appended only to session A: never to another session, and never dropped
\* with a 'No active session' error after its checks have run.
C26_DetectionStaysInItsSession ==
    /\ \A r \in 1..Len(sessionManager.runs) : sessionManager.runs[r].state # "dropped"
    /\ \A session \in SessionsMade : \A n \in 1..Len(session.detections) :
          sessionManager.runs[session.detections[n].run].began = session.sessionId


====
